---- MODULE Spec2Model ----
(***************************************************************************)
(* State-machine model of the solana-bot-app backend core:                 *)
(*   state/store.ts            sessions, cluster runtimes, logs            *)
(*   services/heliusMonitor.ts log-stream handler, auto-snipe filter,      *)
(*                             start/stop, materializer, volume loop       *)
(*   routes/api.ts             status, ack-action, prepare/submit bundle   *)
(* One JavaScript turn (the code between two awaits) is one step.          *)
(***************************************************************************)
EXTENDS Integers, Sequences, FiniteSets, TLC

\* null / undefined: NULL for strings, Null for records, 0 for numbers
NULL == "null"
Null == [null |-> TRUE]

Mainnet == "mainnet-beta"
Devnet == "devnet"
Clusters == {Mainnet, Devnet}

\* ---------------------------------------------------------------- bounds
MaxEpoch == 2
MaxSigs == 2
MaxClock == 2
MaxInFlight == 1
MaxLogs == 5
MaxSockets == 2
MaxCallers == 4
MaxTipCalls == 3
MaxTipAges == 2
MaxFresh == 2
MaxByte == 1
MaxExtBytes == 8
MaxBundles == 2
MaxDedup == 3002

\* ------------------------------------------------- program constants
SeenCap == 3000
SeenKeep == 2000
HeartbeatMs == 15000
EmptyWarnMs == 60000
TickMs == 1000
MinIntervalSec == 2
DefaultIntervalMs == 20000
MAX_LOGS == 500

\* The clock counts milliseconds; it is read in whole periods of the volume
\* timer, the first one at ClockStart.
ClockStepMs == TickMs
ClockStart == TickMs

Owners == {"o1", "o2"}
Mints == {"M1", "M2"}
SourceKeys == {"raydium", "pumpfun"}
SocketIds == 1..MaxSockets
BundleIds == 1..MaxBundles

VARIABLES
    sessions,              \* state[c].sessions: owner -> WalletSession
    sessOrder,             \* the owners state[c].sessions holds, in Map order
    ws,                    \* state[c].ws: a socket id, 0 when undefined
    sockets,               \* socket id -> [cluster, st]
    wsSubIdsByKey,         \* state[c].wsSubIdsByKey: key -> subscription id or 0
    wsSubKeyById,          \* state[c].wsSubKeyById: subscription id -> key or NULL
    wsPendingReqIdToKey,   \* state[c].wsPendingReqIdToKey: request id -> key or NULL
    seenSignatures,        \* state[c].seenSignatures, in insertion order
    clusterLogs,           \* state[c].clusterLogs
    handlers,              \* ws message handlers suspended on an RPC
    volumeTimers,          \* volumeTimers: (cluster, owner) -> time last fired, 0 = none
    materializing,         \* GET /status requests suspended in materialize
    preparing,             \* POST /prepare-bundle requests in flight
    submitting,            \* POST /submit-bundle requests in flight
    engineCalls,           \* block-engine calls issued: cluster -> method -> count
    lastResp,              \* the last HTTP response sent
    stream,                \* history of the notification stream (dedup bookkeeping)
    safetyCall,            \* the last checkMintSafety call: RPC answers and result
    routeCall,             \* the last volume route chain: attempts, outcome and error
    tickArmed,             \* when tick last armed the session of (cluster, owner), 0 = not since Stop
    intervals,             \* live setInterval handles of startVolumeLoop: (cluster, owner) -> count
    tipAccountsCache,      \* jito.ts tipAccountsCache: cluster -> [accounts, fetchedAtMs]
    tipCalls,              \* the jito.getTipAccounts calls made, finished ones included
    jitoRpc,               \* the jitoRpc call in progress: loop position and HTTP traffic
    rpcInFlight,           \* heliusMonitor.ts rpcInFlight: cluster -> count
    rpcQueues,             \* heliusMonitor.ts rpcQueues: cluster -> waiting callers, in order
    rpcCallers,            \* the callers of withRpcLimit: caller -> position
    tlv,                   \* the last call of parseToken2022ExtensionTypes: data and result
    clock                  \* Date.now()

\* the state of the services the routes and handlers call
svc == << tipAccountsCache, tipCalls, jitoRpc, rpcInFlight, rpcQueues, rpcCallers, tlv >>

\* the state of the monitor, the store and the routes
core == << sessions, sessOrder, ws, sockets, wsSubIdsByKey, wsSubKeyById,
           wsPendingReqIdToKey, seenSignatures, clusterLogs,
           handlers, volumeTimers, materializing, preparing, submitting,
           engineCalls, lastResp, stream, safetyCall, routeCall, tickArmed, intervals >>

vars == << sessions, sessOrder, ws, sockets, wsSubIdsByKey, wsSubKeyById,
           wsPendingReqIdToKey, seenSignatures, clusterLogs,
           handlers, volumeTimers, materializing, preparing, submitting,
           engineCalls, lastResp, stream, safetyCall, routeCall, tickArmed, intervals, svc, clock >>

\* ------------------------------------------------------------ helpers
Max(a, b) == IF a >= b THEN a ELSE b

Range(f) == { f[x] : x \in DOMAIN f }

Contains(seq, x) == \E i \in 1..Len(seq) : seq[i] = x

SeqToSet(s) == { s[i] : i \in 1..Len(s) }

\* Array.prototype.slice(-n)
SliceLast(s, n) == IF Len(s) <= n THEN s ELSE SubSeq(s, Len(s) - n + 1, Len(s))

\* ------------------------------------------------------------- store.ts
LogLine(level, msg) == [level |-> level, msg |-> msg]

\* push, then splice down to the newest MAX_LOGS lines
PushLog(logs, level, msg) == SliceLast(Append(logs, LogLine(level, msg)), MAX_LOGS)

makeSession(owner) ==
    [ owner |-> owner,
      running |-> FALSE,
      config |-> Null,
      epoch |-> 0,
      logs |-> << >>,
      bundles |-> [id \in BundleIds |-> Null],
      preparedBundles |-> [id \in BundleIds |-> Null],
      pendingAction |-> Null,
      \* ad-hoc fields heliusMonitor.ts attaches with (s as any)
      autoSnipeStats |-> Null,
      autoMintStats |-> [m \in Mints |-> Null],
      matchedMints |-> << >>,
      lastHeartbeatMs |-> [k \in SourceKeys |-> 0],
      lastEmptySnipeWarnMs |-> 0,
      lastVolumeActionMs |-> 0,
      lastVolumeRoute |-> NULL ]

\* state[c].sessions holds a session for every owner of sessOrder[c]; the
\* others are still to be created and read as makeSession(owner).
HasSession(c, o) == Contains(sessOrder[c], o)

\* the Map order after getOrCreateSession(c, o)
OrderWith(ord, o) == IF Contains(ord, o) THEN ord ELSE Append(ord, o)

\* pushSessionLog on one cluster's session map
pushSessionLog(ss, o, level, msg) == [ ss EXCEPT ![o].logs = PushLog(@, level, msg) ]

pushClusterLog(logs, level, msg) == PushLog(logs, level, msg)

\* ------------------------------------------------------ configurations
\* configSchema defaults (routes/api.ts); the specifications start sessions
\* with variants of it.
AutoSnipeDefaults ==
    [ maxTxAgeSec |-> 20, windowSec |-> 8,
      minSignalsInWindow |-> 3, minUniqueFeePayersInWindow |-> 3,
      requireMintAuthorityDisabled |-> TRUE, requireFreezeAuthorityDisabled |-> TRUE,
      allowToken2022 |-> TRUE, maxTop1HolderPct |-> 20, maxTop10HolderPct |-> 60 ]

DefaultConfig ==
    [ cluster |-> Mainnet, mode |-> "snipe", pumpFunPhase |-> "post",
      snipeTargetMode |-> "list", autoSnipe |-> AutoSnipeDefaults,
      mevEnabled |-> TRUE, volumeEnabled |-> TRUE, volumeIntervalSec |-> 20,
      volumeTokenMint |-> "USDC", volumeSlippageBps |-> 150,
      volumeRoundtrip |-> TRUE, minLiquiditySol |-> 0, snipeList |-> << >> ]

\* pre-migration auto-discovery with a short momentum window
AutoConfig(minSignals, minPayers) ==
    [ DefaultConfig EXCEPT !.pumpFunPhase = "pre", !.snipeTargetMode = "auto",
        !.autoSnipe = [ AutoSnipeDefaults EXCEPT !.maxTxAgeSec = 1, !.windowSec = 1,
                          !.minSignalsInWindow = minSignals,
                          !.minUniqueFeePayersInWindow = minPayers ] ]

ListConfig(phase, list) ==
    [ DefaultConfig EXCEPT !.pumpFunPhase = phase, !.snipeList = list ]

PostAutoConfig == [ DefaultConfig EXCEPT !.snipeTargetMode = "auto" ]

VolumeConfig(enabled, mev) ==
    [ DefaultConfig EXCEPT !.mode = "volume", !.volumeEnabled = enabled,
        !.volumeIntervalSec = 2, !.mevEnabled = mev ]

OnCluster(cfg, c) == [ cfg EXCEPT !.cluster = c ]

\* ------------------------------------------------------ pending actions
\* triggerSignature is <<"sig", n>> for ledger signature n and
\* <<"volumeTimer", t>> for `volumeTimer:${Date.now()}`.
SignalAction(cfg, sig, sourceKey, matched) ==
    [ type |-> "SIGN_AND_BUNDLE",
      reason |-> IF cfg.mode = "snipe" THEN << "snipe", cfg.pumpFunPhase >>
                                       ELSE << "volume", "signal" >>,
      unsignedTxsBase64 |-> << >>,
      triggerSignature |-> << "sig", sig >>,
      source |-> sourceKey,
      targetMint |-> IF Len(matched) > 0 THEN matched[1] ELSE NULL,
      needsUnsignedTxs |-> TRUE ]

VolumeAction(cfg, now) ==
    [ type |-> "SIGN_AND_BUNDLE",
      reason |-> << "volume", IF cfg.volumeRoundtrip THEN "roundtrip" ELSE "one-leg" >>,
      unsignedTxsBase64 |-> << >>,
      triggerSignature |-> << "volumeTimer", now >>,
      source |-> "volumeTimer",
      targetMint |-> cfg.volumeTokenMint,
      needsUnsignedTxs |-> TRUE ]

\* jito.ts line 101: no entry in tipAccountsCache
NoTipCache == [ accounts |-> << >>, fetchedAtMs |-> 0 ]

\* ---------------------------------------------------------- volume loop
volumeKey(c, o) == << c, o >>

\* startVolumeLoop.tick on the session record s
tick(s, now) ==
    IF ~s.running \/ s.config = Null THEN s
    ELSE IF s.config.mode /= "volume" THEN s
    ELSE IF ~s.config.volumeEnabled THEN s
    ELSE IF s.pendingAction /= Null THEN s
    ELSE [ s EXCEPT !.pendingAction = VolumeAction(s.config, now) ]

\* the setInterval callback of startVolumeLoop on the session record s
intervalCallback(s, now) ==
    LET intervalMs == IF s.config /= Null /\ s.config.mode = "volume"
                      THEN Max(MinIntervalSec, s.config.volumeIntervalSec) * 1000
                      ELSE DefaultIntervalMs
        lastMs == s.lastVolumeActionMs
        t == tick(s, now)
    IN  IF lastMs /= 0 /\ now - lastMs < intervalMs THEN s
        ELSE IF s.pendingAction = Null /\ t.pendingAction /= Null
             THEN [ t EXCEPT !.lastVolumeActionMs = now ]
             ELSE t

\* a start that runs tick on every session of the cluster
startVolumeLoopEverySession(ss, timers, c, o, now) ==
    IF timers[volumeKey(c, o)] /= 0 THEN ss
    ELSE [ p \in Owners |-> tick(ss[p], now) ]

\* startVolumeLoop: the session map and the timer map after the call
startVolumeLoopSessions(ss, timers, c, o, now) ==
    IF timers[volumeKey(c, o)] /= 0 THEN ss
    ELSE [ ss EXCEPT ![o] = tick(@, now) ]

startVolumeLoopTimers(timers, c, o, now) ==
    IF timers[volumeKey(c, o)] /= 0 THEN timers
    ELSE [ timers EXCEPT ![volumeKey(c, o)] = now ]

stopVolumeLoop(timers, c, o) == [ timers EXCEPT ![volumeKey(c, o)] = 0 ]

startVolumeLoopAlways(iv, timers, c, o) == [ iv EXCEPT ![volumeKey(c, o)] = @ + 1 ]

\* lines 815 and 844: setInterval unless the map has the key
startVolumeLoopIntervals(iv, timers, c, o) ==
    IF timers[volumeKey(c, o)] /= 0 THEN iv
    ELSE [ iv EXCEPT ![volumeKey(c, o)] = @ + 1 ]

\* lines 866-867: clearInterval of the handle the map holds
stopVolumeLoopIntervals(iv, timers, c, o) ==
    IF timers[volumeKey(c, o)] /= 0 THEN [ iv EXCEPT ![volumeKey(c, o)] = @ - 1 ]
    ELSE iv

\* ------------------------------------------------------ start and stop
SubIds == 1..(2 * MaxSockets)
ReqIds == 1..(2 * MaxSockets)
NoSubIds == [ k \in SourceKeys |-> 0 ]
NoSubKeys == [ i \in SubIds |-> NULL ]

\* A socket: its cluster, its readyState, the logsSubscribe request sent on
\* it for each key (0 = none) and the subscription id the node answered
\* with (0 = not yet).
NoSocket == [ cluster |-> NULL, st |-> "none", reqs |-> NoSubIds, subs |-> NoSubIds ]
NewSocket(c) == [ NoSocket EXCEPT !.cluster = c, !.st = "connecting" ]

anySessionsRunning(ss) == \E o \in Owners : ss[o].running

startedSessionSameEpoch(s, cfg) ==
    [ s EXCEPT !.running = TRUE, !.config = cfg, !.pendingAction = Null,
               !.logs = PushLog(@, "info", "Session started") ]

\* startWalletSession's writes to the session (lines 589-595)
startedSession(s, cfg) ==
    [ s EXCEPT !.running = TRUE, !.config = cfg, !.pendingAction = Null,
               !.epoch = @ + 1,
               !.logs = PushLog(@, "info", "Session started") ]

\* stopWalletSession's writes to the session (lines 607-612)
stoppedSession(s) ==
    [ s EXCEPT !.running = FALSE, !.config = Null, !.pendingAction = Null,
               !.epoch = @ + 1,
               !.logs = PushLog(@, "info", "Session stopped") ]

\* POST /start-monitoring -> startWalletSession(owner, config)
Start(o, cfg) ==
    LET c == cfg.cluster
        s0 == pushSessionLog(sessions[c], o, "info", "Start requested")
        s1 == [ s0 EXCEPT ![o] = startedSession(@, cfg) ]
        needWs == cfg.mode = "snipe" /\ ws[c] = 0
        sock == Cardinality({ i \in SocketIds : sockets[i].st /= "none" }) + 1
    IN  /\ sessions[c][o].epoch < MaxEpoch
        /\ needWs => sock <= MaxSockets
        /\ sessOrder' = [ sessOrder EXCEPT ![c] = OrderWith(@, o) ]
        /\ sessions' = [ sessions EXCEPT ![c] =
                IF cfg.mode = "volume"
                THEN startVolumeLoopSessions(s1, volumeTimers, c, o, clock)
                ELSE s1 ]
        /\ volumeTimers' = IF cfg.mode = "volume"
                           THEN startVolumeLoopTimers(volumeTimers, c, o, clock)
                           ELSE volumeTimers
        /\ intervals' = IF cfg.mode = "volume"
                        THEN startVolumeLoopIntervals(intervals, volumeTimers, c, o)
                        ELSE intervals
        /\ tickArmed' = [ tickArmed EXCEPT ![volumeKey(c, o)] =
                        IF sessions'[c][o].pendingAction /= Null THEN clock ELSE @ ]
        \* ensureClusterSubscription
        /\ IF needWs
           THEN /\ ws' = [ ws EXCEPT ![c] = sock ]
                /\ sockets' = [ sockets EXCEPT ![sock] = NewSocket(c) ]
                /\ clusterLogs' = [ clusterLogs EXCEPT ![c] =
                                      pushClusterLog(@, "info", "Connecting WebSocket") ]
           ELSE UNCHANGED << ws, sockets, clusterLogs >>
        /\ UNCHANGED << svc, routeCall, safetyCall, wsSubIdsByKey, wsSubKeyById, wsPendingReqIdToKey, seenSignatures,
                        handlers, materializing, preparing, submitting,
                        engineCalls, lastResp, stream, clock >>

\* POST /stop-monitoring -> stopWalletSession(cluster, owner)
Stop(c, o) ==
    LET s1 == [ sessions[c] EXCEPT ![o] = stoppedSession(@) ]
        closeWs == ~anySessionsRunning(s1) /\ ws[c] /= 0
    IN  /\ sessions[c][o].epoch < MaxEpoch
        /\ sessOrder' = [ sessOrder EXCEPT ![c] = OrderWith(@, o) ]
        /\ sessions' = [ sessions EXCEPT ![c] = s1 ]
        /\ volumeTimers' = stopVolumeLoop(volumeTimers, c, o)
        /\ intervals' = stopVolumeLoopIntervals(intervals, volumeTimers, c, o)
        /\ tickArmed' = [ tickArmed EXCEPT ![volumeKey(c, o)] = 0 ]
        /\ IF closeWs
           THEN /\ sockets' = [ sockets EXCEPT ![ws[c]].st =
                                  IF @ = "closed" THEN "closed" ELSE "closing" ]
                /\ ws' = [ ws EXCEPT ![c] = 0 ]
                /\ wsSubIdsByKey' = [ wsSubIdsByKey EXCEPT ![c] = NoSubIds ]
                /\ wsSubKeyById' = [ wsSubKeyById EXCEPT ![c] = NoSubKeys ]
                /\ wsPendingReqIdToKey' = [ wsPendingReqIdToKey EXCEPT ![c] = NoSubKeys ]
                /\ clusterLogs' = [ clusterLogs EXCEPT ![c] =
                                      pushClusterLog(@, "info", "Closed cluster WebSocket") ]
           ELSE UNCHANGED << sockets, ws, wsSubIdsByKey, wsSubKeyById,
                             wsPendingReqIdToKey, clusterLogs >>
        /\ UNCHANGED << svc, routeCall, safetyCall, seenSignatures, handlers, materializing,
                        preparing, submitting, engineCalls, lastResp, stream, clock >>

\* the 1 Hz setInterval callback of the (c, o) volume timer
TimerFire(c, o) ==
    LET k == volumeKey(c, o)
    IN  /\ volumeTimers[k] /= 0
        /\ clock - volumeTimers[k] >= TickMs
        /\ volumeTimers' = [ volumeTimers EXCEPT ![k] = clock ]
        /\ sessOrder' = [ sessOrder EXCEPT ![c] = OrderWith(@, o) ]
        /\ sessions' = [ sessions EXCEPT ![c][o] = intervalCallback(@, clock) ]
        /\ tickArmed' = [ tickArmed EXCEPT ![k] =
                        IF sessions[c][o].pendingAction = Null
                           /\ sessions'[c][o].pendingAction /= Null THEN clock ELSE @ ]
        /\ UNCHANGED << svc, intervals, routeCall, safetyCall, ws, sockets, wsSubIdsByKey, wsSubKeyById, wsPendingReqIdToKey,
                        seenSignatures, clusterLogs, handlers,
                        materializing, preparing, submitting, engineCalls, lastResp,
                        stream, clock >>

\* time passes
AdvanceClock ==
    /\ clock < ClockStart + MaxClock * ClockStepMs
    /\ clock' = clock + ClockStepMs
    /\ UNCHANGED << svc, tickArmed, intervals, routeCall, safetyCall, sessions, sessOrder, ws, sockets, wsSubIdsByKey, wsSubKeyById,
                    wsPendingReqIdToKey, seenSignatures, clusterLogs,
                    handlers, volumeTimers, materializing, preparing, submitting,
                    engineCalls, lastResp, stream >>

\* POST /ack-action
AckAction(c, o) ==
    LET s1 == [ sessions[c] EXCEPT ![o].pendingAction = Null ]
    IN  /\ Len(sessions[c][o].logs) < MaxLogs
        /\ sessOrder' = [ sessOrder EXCEPT ![c] = OrderWith(@, o) ]
        /\ sessions' = [ sessions EXCEPT ![c] =
                           pushSessionLog(s1, o, "info", "Pending action acknowledged") ]
        /\ lastResp' = [ op |-> "ack-action", cluster |-> c, owner |-> o,
                         status |-> 200, error |-> NULL, flip |-> ~lastResp.flip ]
        /\ UNCHANGED << svc, tickArmed, intervals, routeCall, safetyCall, ws, sockets, wsSubIdsByKey, wsSubKeyById, wsPendingReqIdToKey,
                        seenSignatures, clusterLogs, handlers,
                        volumeTimers, materializing, preparing, submitting, engineCalls,
                        stream, clock >>

\* ------------------------------------------------------------ the ledger
\* A transaction as the RPC node returns it: static account keys (fee payer
\* first), the mints of pre/postTokenBalances in order, and its log lines.
\* A log line is the keyword the heuristics look for in it.
Tx(keys, pre, post, logs) == [keys |-> keys, pre |-> pre, post |-> post, logs |-> logs]

LedgerTxs ==
    << Tx(<< "p1", "M1" >>, << >>, << "M1" >>, << "create", "initialize" >>),
       Tx(<< "p2", "M1" >>, << >>, << "M1" >>, << "create", "initialize" >>),
       Tx(<< "p3", "M1" >>, << >>, << "M1" >>, << "create", "initialize" >>),
       Tx(<< "p1", "M1" >>, << "M1" >>, << "M1" >>, << "buy" >>),
       Tx(<< "p2", "M2" >>, << "M2" >>, << "M2" >>, << "sell" >>),
       Tx(<< "p3", "A1", "M2" >>, << >>, << >>, << "initialize2" >>),
       Tx(<< "p1", "A1" >>, << >>, << >>, << "transfer" >>) >>

\* the transaction with signature sig; a notification without a signature
\* (sig = 0) carries no log lines
Ledger(sig) == IF sig = 0 THEN Tx(<< >>, << >>, << >>, << >>)
               ELSE LedgerTxs[((sig - 1) % Len(LedgerTxs)) + 1]

\* accounts that hold an initialized SPL mint
IsMintAccount(k) == k \in Mints

looksLikeRaydiumPoolInit(logs) ==
    \E i \in 1..Len(logs) : logs[i] \in {"initialize2", "initialize"}

looksLikePumpfunTradeSignal(logs) ==
    \E i \in 1..Len(logs) : logs[i] \in {"buy", "sell", "create", "initialize", "initialize2"}

isCreateLikePumpfunLogs(logs) == \E i \in 1..Len(logs) : logs[i] = "create"

isMintNewInTx(tx, mint) == Contains(tx.post, mint) /\ ~Contains(tx.pre, mint)

\* inferMintFromPumpfunTx on a transaction that was found: the first mint of
\* the token balances (post first), else the first probed key that is a mint
InferredMint(tx) ==
    LET bal == tx.post \o tx.pre
        probe == SubSeq(tx.keys, 1, IF Len(tx.keys) < 25 THEN Len(tx.keys) ELSE 25)
        hits == { i \in 1..Len(probe) : IsMintAccount(probe[i]) }
    IN  IF Len(bal) > 0 THEN bal[1]
        ELSE IF hits = {} THEN NULL
        ELSE probe[CHOOSE i \in hits : \A j \in hits : i <= j]

\* txMentionsAnyOfMints on a transaction that was found
\* the Set built from cfg.snipeList at line 438
snipeSet(cfg) == { x \in SeqToSet(cfg.snipeList) : x /= "" }

MentionedMints(tx, mintSet) == SelectSeq(tx.keys, LAMBDA k : k \in mintSet)

\* --------------------------------------------------------- deduplication
\* markSeenSignature: the set after the call, and what the call returns
SeenHasNothing(seen, sig) == FALSE

SeenHas(seen, sig) == Contains(seen, sig)

\* a trim that keeps the oldest entries
markSeenSignatureKeepOldest(seen, sig) ==
    IF Contains(seen, sig) THEN seen
    ELSE LET added == Append(seen, sig)
         IN  IF Len(added) > SeenCap THEN SubSeq(added, 1, SeenKeep) ELSE added

markSeenSignature(seen, sig) ==
    IF SeenHas(seen, sig) THEN seen
    ELSE LET added == Append(seen, sig)
         IN  IF Len(added) > SeenCap THEN SliceLast(added, SeenKeep) ELSE added

\* a call of markSeenSignature(cluster, signature), lines 319-332
MarkSeen(c, sig) ==
    /\ seenSignatures' = [ seenSignatures EXCEPT ![c] = markSeenSignature(@, sig) ]
    /\ UNCHANGED << svc, tickArmed, intervals, routeCall, safetyCall, sessions, sessOrder, ws, sockets,
                    wsSubIdsByKey, wsSubKeyById, wsPendingReqIdToKey, clusterLogs, handlers,
                    volumeTimers, materializing, preparing, submitting, engineCalls,
                    lastResp, stream, clock >>

\* ------------------------------------------- the log-stream message handler
RejectReasons ==
    { "noMint", "notNew", "windowExpired", "tooOld", "momentum", "uniquePayers",
      "safety", "mint account not found", "not a token mint account",
      "token-2022 not allowed", "token-2022 blocked extension",
      "mint not initialized", "mint authority still enabled",
      "freeze authority still enabled", "zero supply", "top1 too high",
      "top10 too high" }

NewStats ==
    [ totalSignals |-> 0, txOk |-> 0, mintInferred |-> 0, safetyOk |-> 0,
      triggered |-> 0, rejects |-> [ r \in RejectReasons |-> 0 ] ]

NewMintStats(now) ==
    [ firstSeenMs |-> now, createdAtMs |-> now, count |-> 0, payers |-> {},
      safety |-> Null ]

\* stats.rejects[r] += 1 on session record s
Reject(s, r) == [ s EXCEPT !.autoSnipeStats.rejects[r] = @ + 1 ]

\* the locals of one handler invocation while it walks the sessions
NewHandler(c, sig, src) ==
    [ cluster |-> c, sig |-> sig, src |-> src, idx |-> 1, pc |-> "loop",
      cfg |-> Null, epoch |-> 0, isCreateFromLogs |-> FALSE, mint |-> NULL, now |-> 0 ]

\* A frame is what one turn of the handler reads and writes: the cluster's
\* sessions (ss), its cluster log (clog), the handler's locals (h) and
\* whether the turn ended on an await (susp).
Frame(ss, clog, h) == [ ss |-> ss, clog |-> clog, h |-> h, susp |-> FALSE ]

GuardOff(s, h) == TRUE

\* the staleness guard of lines 455, 508, 544 and 556
Guard(s, h) == s.running /\ s.config = h.cfg /\ s.epoch = h.epoch

\* lines 554-570: log the match, re-check the guard, arm the session
Arm(F, o) ==
    LET h == F.h
        s == F.ss[o]
        clog1 == pushClusterLog(F.clog, "info", "matched")
        armed == [ F.ss EXCEPT ![o].pendingAction =
                     SignalAction(h.cfg, h.sig, h.src, s.matchedMints) ]
    IN  IF ~Guard(s, h) THEN [ F EXCEPT !.clog = clog1 ]
        ELSE [ F EXCEPT !.clog = clog1,
                        !.ss = pushSessionLog(armed, o, "info", "Pending action created") ]

AutoTailNoPayers(F, o) ==
    LET h == F.h
        s == F.ss[o]
        st == s.autoMintStats[h.mint]
        s2 == [ s EXCEPT !.autoSnipeStats.safetyOk = @ + 1,
                         !.matchedMints = << h.mint >>,
                         !.autoSnipeStats.triggered = @ + 1 ]
    IN  IF ~Guard(s, h) THEN F
        ELSE IF ~st.safety.ok THEN [ F EXCEPT !.ss[o] = Reject(s, "safety") ]
        ELSE IF st.count < h.cfg.autoSnipe.minSignalsInWindow
             THEN [ F EXCEPT !.ss[o] = Reject(s, "momentum") ]
        ELSE Arm([ F EXCEPT !.ss[o] = s2 ], o)

AutoTailUncounted(F, o) ==
    LET h == F.h
        s == F.ss[o]
        st == s.autoMintStats[h.mint]
        a == h.cfg.autoSnipe
        s2 == [ s EXCEPT !.matchedMints = << h.mint >>,
                         !.autoSnipeStats.triggered = @ + 1 ]
    IN  IF ~Guard(s, h) THEN F
        ELSE IF ~st.safety.ok THEN [ F EXCEPT !.ss[o] = Reject(s, "safety") ]
        ELSE IF st.count < a.minSignalsInWindow
             THEN [ F EXCEPT !.ss[o] = Reject(s, "momentum") ]
        ELSE IF Cardinality(st.payers) < a.minUniqueFeePayersInWindow
             THEN [ F EXCEPT !.ss[o] = Reject(s, "uniquePayers") ]
        ELSE Arm([ F EXCEPT !.ss[o] = s2 ], o)

\* lines 508-526: after the safety verdict is stored on the mint's entry
AutoTail(F, o) ==
    LET h == F.h
        s == F.ss[o]
        st == s.autoMintStats[h.mint]
        a == h.cfg.autoSnipe
        s1 == [ s EXCEPT !.autoSnipeStats.safetyOk = @ + 1 ]
        s2 == [ s1 EXCEPT !.matchedMints = << h.mint >>,
                          !.autoSnipeStats.triggered = @ + 1 ]
    IN  IF ~Guard(s, h) THEN F
        ELSE IF ~st.safety.ok
             THEN [ F EXCEPT !.ss[o] =
                      Reject(s, IF st.safety.reason = NULL THEN "safety" ELSE st.safety.reason) ]
        ELSE IF st.count < a.minSignalsInWindow
             THEN [ F EXCEPT !.ss[o] = Reject(s1, "momentum") ]
        ELSE IF Cardinality(st.payers) < a.minUniqueFeePayersInWindow
             THEN [ F EXCEPT !.ss[o] = Reject(s1, "uniquePayers") ]
        ELSE Arm([ F EXCEPT !.ss[o] = s2 ], o)

\* the catch blocks of lines 527-529 and 547-549
CheckFailed(F, o, msg) == [ F EXCEPT !.ss = pushSessionLog(F.ss, o, "warn", msg) ]

\* lines 455-507: inferMintFromPumpfunTx has settled with outcome
\* "throw" (rejected), "null" (no transaction) or "ok"
AfterInfer(F, o, outcome, now) ==
    LET h == F.h
        s == F.ss[o]
        tx == Ledger(h.sig)
        mint == IF outcome = "ok" THEN InferredMint(tx) ELSE NULL
        a == h.cfg.autoSnipe
        isCreate == h.isCreateFromLogs \/ isMintNewInTx(tx, mint)
        s1 == [ s EXCEPT !.autoSnipeStats.txOk = @ + 1,
                         !.autoSnipeStats.mintInferred = @ + 1 ]
        old == s.autoMintStats[mint]
        expired == old /= Null /\ now - old.firstSeenMs > a.windowSec * 1000
        st == IF old = Null \/ expired THEN NewMintStats(now) ELSE old
        ageSec == (now - st.createdAtMs) \div 1000
        payer == IF Len(tx.keys) > 0 THEN {tx.keys[1]} ELSE {}
        st1 == [ st EXCEPT !.count = @ + 1, !.payers = @ \cup payer ]
        s2 == [ s1 EXCEPT !.autoMintStats[mint] = st1 ]
        h2 == [ h EXCEPT !.mint = mint, !.now = now ]
    IN  IF outcome = "throw" THEN CheckFailed(F, o, "Auto-snipe check failed")
        ELSE IF ~Guard(s, h) THEN F
        ELSE IF mint = NULL THEN [ F EXCEPT !.ss[o] = Reject(s, "noMint") ]
        ELSE IF old = Null /\ ~isCreate THEN [ F EXCEPT !.ss[o] = Reject(s1, "notNew") ]
        ELSE IF expired /\ ~isCreate THEN [ F EXCEPT !.ss[o] = Reject(s1, "windowExpired") ]
        ELSE IF ageSec > a.maxTxAgeSec
             THEN [ F EXCEPT !.ss[o] =
                      Reject([ s1 EXCEPT !.autoMintStats[mint] = st ], "tooOld") ]
        ELSE IF st1.safety = Null
             THEN [ F EXCEPT !.ss[o] = s2, !.h = [ h2 EXCEPT !.pc = "safety" ],
                             !.susp = TRUE ]
        ELSE AutoTail([ F EXCEPT !.ss[o] = s2, !.h = h2 ], o)

\* line 507 resumed: checkMintSafety has settled with outcome
\* [threw, ok, reason]; a verdict is stored before the guard is read
AfterSafety(F, o, outcome) ==
    IF outcome.threw THEN CheckFailed(F, o, "Auto-snipe check failed")
    ELSE AutoTail([ F EXCEPT !.ss[o].autoMintStats[F.h.mint].safety =
                      [ ok |-> outcome.ok, reason |-> outcome.reason ] ], o)

\* lines 544-546: txMentionsAnyOfMints has settled with outcome "throw",
\* "null" (no transaction, hence no keys) or "ok"
AfterList(F, o, outcome) ==
    LET h == F.h
        s == F.ss[o]
        matches == IF outcome = "ok"
                   THEN MentionedMints(Ledger(h.sig), snipeSet(h.cfg))
                   ELSE << >>
    IN  IF outcome = "throw" THEN CheckFailed(F, o, "Mint filter check failed")
        ELSE IF ~Guard(s, h) THEN F
        ELSE IF Len(matches) = 0 THEN F
        ELSE Arm([ F EXCEPT !.ss[o].matchedMints = matches ], o)

\* lines 403-424: the rate-limited heartbeat
Heartbeat(s, src, now) ==
    LET lastHb == s.lastHeartbeatMs[src]
        s1 == [ s EXCEPT !.lastHeartbeatMs[src] = now ]
    IN  IF lastHb /= 0 /\ now - lastHb <= HeartbeatMs THEN s
        ELSE IF s.autoSnipeStats /= Null /\ s.autoSnipeStats.totalSignals /= 0
             THEN [ s1 EXCEPT !.logs = PushLog(@, "info", "Auto-snipe stats") ]
             ELSE s1

\* a routing that serves the pumpfun topic only
RoutedPumpfunOnly(cfg, src) == src = "pumpfun"

\* lines 429-435: does the topic concern a session with configuration cfg
Routed(cfg, src) ==
    IF cfg.mode = "snipe"
    THEN /\ ~(cfg.pumpFunPhase = "pre" /\ src /= "pumpfun")
         /\ ~(cfg.pumpFunPhase = "post" /\ src /= "raydium")
    ELSE src = "raydium"

\* lines 398-551 up to the first await: one loop iteration for session o
LoopBody(F, o, now) ==
    LET s == F.ss[o]
        cfg == s.config
        h1 == [ F.h EXCEPT !.cfg = cfg, !.epoch = s.epoch,
                           !.isCreateFromLogs = isCreateLikePumpfunLogs(Ledger(F.h.sig).logs) ]
        s1 == Heartbeat(s, F.h.src, now)
        F1 == [ F EXCEPT !.ss[o] = s1, !.h = h1 ]
        s2 == [ s1 EXCEPT !.autoSnipeStats =
                  [ (IF @ = Null THEN NewStats ELSE @) EXCEPT !.totalSignals = @ + 1 ] ]
        lastWarn == s1.lastEmptySnipeWarnMs
        s3 == [ s1 EXCEPT !.lastEmptySnipeWarnMs = now,
                          !.logs = PushLog(@, "warn", "Snipe list is empty") ]
    IN  IF ~s.running \/ cfg = Null THEN F
        ELSE IF s.pendingAction /= Null THEN F
        ELSE IF ~Routed(cfg, F.h.src) THEN [ F EXCEPT !.ss[o] = s1 ]
        ELSE IF cfg.mode = "snipe" /\ cfg.pumpFunPhase = "pre" /\ F.h.src = "pumpfun"
                /\ cfg.snipeTargetMode = "auto"
             THEN [ F1 EXCEPT !.ss[o] = s2, !.h.pc = "infer", !.susp = TRUE ]
        ELSE IF cfg.mode = "snipe" /\ cfg.snipeTargetMode = "list"
             THEN IF snipeSet(cfg) = {}
                  THEN IF lastWarn /= 0 /\ now - lastWarn <= EmptyWarnMs
                       THEN [ F EXCEPT !.ss[o] = s1 ]
                       ELSE [ F EXCEPT !.ss[o] = s3 ]
                  ELSE [ F1 EXCEPT !.h.pc = "list", !.susp = TRUE ]
        ELSE Arm(F1, o)

\* the for-loop of line 397 from position i of the Map order, run until it
\* ends or reaches an await
RECURSIVE RunLoop(_, _, _, _)
RunLoop(F, order, i, now) ==
    IF i > Len(order) THEN [ F EXCEPT !.h.pc = "done", !.h.idx = i ]
    ELSE LET G == LoopBody(F, order[i], now)
         IN  IF G.susp THEN [ G EXCEPT !.h.idx = i ]
             ELSE RunLoop(G, order, i + 1, now)

\* ------------------------------------------------ notification history
\* Bookkeeping on the stream of one cluster, for the streams whose new
\* signatures arrive in increasing order (a signature is delivered for the
\* first time when it is hi + 1).  Tracked are the signatures whose
\* deliveries are counted one by one.
Tracked == { 1, 2, SeenCap - SeenKeep + 1, SeenCap - SeenKeep + 2 }

NoStream ==
    [ hi |-> 0,                               \* highest signature delivered
      fanned |-> 0,                           \* notifications that reached the fan-out
      passing |-> 0,                          \* distinct signatures delivered on a known
                                              \*   subscription with logs that pass
      obs |-> [ t \in Tracked |-> FALSE ],    \* t was delivered at least once
      routed |-> [ t \in Tracked |-> 0 ],     \* times t reached the fan-out
      others |-> [ t \in Tracked |-> 0 ],     \* distinct other signatures
                                              \*   inserted since t was first seen
      since |-> [ t \in Tracked |-> {} ],     \* the tracked ones among them
      last |-> [ sig |-> 0, fate |-> "none", flip |-> FALSE ] ]

\* the history after signature sig was delivered; inserted: markSeenSignature
\* added it; passes: its subscription is known and its logs pass the
\* heuristic; fate: where the handler left it
Delivered(st, sig, inserted, passes, fate) ==
    LET counts(t) == st.obs[t] /\ t /= sig /\ inserted /\ sig \notin st.since[t]
    IN  [ hi |-> Max(st.hi, sig),
          fanned |-> IF fate = "routed" THEN st.fanned + 1 ELSE st.fanned,
          passing |-> IF sig > st.hi /\ passes THEN st.passing + 1 ELSE st.passing,
          obs |-> [ t \in Tracked |-> st.obs[t] \/ t = sig ],
          routed |-> [ t \in Tracked |->
                         IF t = sig /\ fate = "routed" THEN st.routed[t] + 1
                         ELSE st.routed[t] ],
          others |-> [ t \in Tracked |->
                         IF counts(t) THEN st.others[t] + 1 ELSE st.others[t] ],
          since |-> [ t \in Tracked |->
                        IF counts(t) /\ sig \in Tracked THEN st.since[t] \cup {sig}
                        ELSE st.since[t] ],
          last |-> [ sig |-> sig, fate |-> fate, flip |-> ~st.last.flip ] ]

\* ------------------------------------------------------- WebSocket events
KeyIndex(k) == IF k = "raydium" THEN 1 ELSE 2

\* the request id subscribeLogs draws for key k on socket id, and the
\* subscription id the node answers it with
ReqIdOf(id, k) == 2 * (id - 1) + KeyIndex(k)
SubIdOf(id, k) == 2 * (id - 1) + KeyIndex(k)

\* ws.on("open") of socket id
WsOpen(id) ==
    LET c == sockets[id].cluster
    IN  /\ sockets[id].st = "connecting"
        /\ sockets' = [ sockets EXCEPT ![id].st = "open",
                          ![id].reqs = [ k \in SourceKeys |-> ReqIdOf(id, k) ] ]
        /\ clusterLogs' = [ clusterLogs EXCEPT ![c] =
                              pushClusterLog(@, "info", "WebSocket connected") ]
        /\ wsPendingReqIdToKey' = [ wsPendingReqIdToKey EXCEPT ![c] =
              [ r \in ReqIds |-> IF r = ReqIdOf(id, "pumpfun") THEN "pumpfun"
                                 ELSE IF r = ReqIdOf(id, "raydium") THEN "raydium"
                                 ELSE @[r] ] ]
        /\ UNCHANGED << svc, tickArmed, intervals, routeCall, safetyCall, sessions, sessOrder, ws, wsSubIdsByKey, wsSubKeyById,
                        seenSignatures, handlers, volumeTimers, materializing,
                        preparing, submitting, engineCalls, lastResp, stream, clock >>

\* ws.on("message") of socket id for the node's reply to the logsSubscribe
\* request of key k (lines 370-379)
WsSubReply(id, k) ==
    LET c == sockets[id].cluster
        reqId == sockets[id].reqs[k]
        subId == SubIdOf(id, k)
        key == wsPendingReqIdToKey[c][reqId]
    IN  /\ sockets[id].st \in {"open", "closing"}
        /\ reqId /= 0
        /\ sockets[id].subs[k] = 0
        /\ sockets' = [ sockets EXCEPT ![id].subs[k] = subId ]
        /\ IF key /= NULL
           THEN /\ wsPendingReqIdToKey' = [ wsPendingReqIdToKey EXCEPT ![c][reqId] = NULL ]
                /\ wsSubIdsByKey' = [ wsSubIdsByKey EXCEPT ![c][key] = subId ]
                /\ wsSubKeyById' = [ wsSubKeyById EXCEPT ![c][subId] = key ]
                /\ clusterLogs' = [ clusterLogs EXCEPT ![c] =
                                      pushClusterLog(@, "info", "Subscribed") ]
           ELSE UNCHANGED << wsPendingReqIdToKey, wsSubIdsByKey, wsSubKeyById, clusterLogs >>
        /\ UNCHANGED << svc, tickArmed, intervals, routeCall, safetyCall, sessions, sessOrder, ws, seenSignatures, handlers, volumeTimers,
                        materializing, preparing, submitting, engineCalls, lastResp,
                        stream, clock >>

\* ws.on("close") of socket id
WsClose(id) ==
    LET c == sockets[id].cluster
    IN  /\ sockets[id].st \in {"connecting", "open", "closing"}
        /\ sockets' = [ sockets EXCEPT ![id].st = "closed" ]
        /\ clusterLogs' = [ clusterLogs EXCEPT ![c] =
                              pushClusterLog(@, "warn", "WebSocket closed") ]
        /\ ws' = [ ws EXCEPT ![c] = 0 ]
        /\ wsSubIdsByKey' = [ wsSubIdsByKey EXCEPT ![c] = NoSubIds ]
        /\ wsSubKeyById' = [ wsSubKeyById EXCEPT ![c] = NoSubKeys ]
        /\ wsPendingReqIdToKey' = [ wsPendingReqIdToKey EXCEPT ![c] = NoSubKeys ]
        /\ UNCHANGED << svc, tickArmed, intervals, routeCall, safetyCall, sessions, sessOrder, seenSignatures, handlers, volumeTimers,
                        materializing, preparing, submitting, engineCalls, lastResp,
                        stream, clock >>

\* does a notification with these log lines on topic src pass lines 393-394
PassesHeuristic(src, logs) ==
    /\ src = "raydium" => looksLikeRaydiumPoolInit(logs)
    /\ src = "pumpfun" => looksLikePumpfunTradeSignal(logs)

\* ws.on("message") of socket id for a logsNotification of the node's
\* subscription for key k, carrying signature sig (0: none) and the log
\* lines of Ledger(sig); lines 381-571 up to the first await
Notify(id, k, sig) ==
    LET c == sockets[id].cluster
        subId == sockets[id].subs[k]
        logs == Ledger(sig).logs
        dropEarly == sig = 0 \/ Len(logs) = 0
        seen == seenSignatures[c]
        already == SeenHas(seen, sig)
        sourceKey == wsSubKeyById[c][subId]
        passes == sourceKey /= NULL /\ PassesHeuristic(sourceKey, logs)
        fate == IF dropEarly THEN "ignored"
                ELSE IF already THEN "duplicate"
                ELSE IF sourceKey = NULL THEN "unknown"
                ELSE IF ~passes THEN "filtered"
                ELSE "routed"
        F == RunLoop(Frame(sessions[c], clusterLogs[c], NewHandler(c, sig, sourceKey)),
                     sessOrder[c], 1, clock)
    IN  /\ sockets[id].st \in {"open", "closing"}
        /\ subId /= 0
        /\ seenSignatures' = IF dropEarly THEN seenSignatures
                             ELSE [ seenSignatures EXCEPT ![c] = markSeenSignature(seen, sig) ]
        /\ stream' = [ stream EXCEPT ![c] =
                         Delivered(@, sig, ~dropEarly /\ ~already, ~dropEarly /\ passes, fate) ]
        /\ IF fate = "routed"
           THEN /\ sessions' = [ sessions EXCEPT ![c] = F.ss ]
                /\ clusterLogs' = [ clusterLogs EXCEPT ![c] = F.clog ]
                /\ handlers' = IF F.susp THEN handlers \cup {F.h} ELSE handlers
           ELSE UNCHANGED << sessions, clusterLogs, handlers >>
        /\ UNCHANGED << svc, tickArmed, intervals, routeCall, safetyCall, sessOrder, ws, sockets, wsSubIdsByKey, wsSubKeyById,
                        wsPendingReqIdToKey, volumeTimers, materializing, preparing,
                        submitting, engineCalls, lastResp, clock >>

\* ws.on("message") of socket id for a logsNotification that carries
\* signature sig and no log lines: the handler returns at line 388
NotifyNoLogs(id, k, sig) ==
    LET c == sockets[id].cluster
    IN  /\ sockets[id].st \in {"open", "closing"}
        /\ sockets[id].subs[k] /= 0
        /\ stream' = [ stream EXCEPT ![c] = Delivered(@, sig, FALSE, FALSE, "ignored") ]
        /\ UNCHANGED << svc, tickArmed, intervals, routeCall, safetyCall, sessions, sessOrder, ws, sockets,
                        wsSubIdsByKey, wsSubKeyById, wsPendingReqIdToKey, seenSignatures,
                        clusterLogs, handlers, volumeTimers, materializing, preparing,
                        submitting, engineCalls, lastResp, clock >>

\* ws.on("message") of socket id for data that is not JSON: JSON.parse of
\* line 368 throws, outside any try, and the promise of the async handler
\* is rejected with nothing to catch it
WsGarbage(id) ==
    LET c == sockets[id].cluster
    IN  /\ sockets[id].st \in {"open", "closing"}
        /\ stream' = [ stream EXCEPT ![c] = Delivered(@, 0, FALSE, FALSE, "threw") ]
        /\ UNCHANGED << svc, tickArmed, intervals, routeCall, safetyCall, sessions, sessOrder, ws, sockets,
                        wsSubIdsByKey, wsSubKeyById, wsPendingReqIdToKey, seenSignatures,
                        clusterLogs, handlers, volumeTimers, materializing, preparing,
                        submitting, engineCalls, lastResp, clock >>

\* handler h resumes with G, the frame after the code that follows its
\* await: it suspends again or goes on with the next session
Resumed(h, G) ==
    LET c == h.cluster
        H == IF G.susp THEN G ELSE RunLoop(G, sessOrder[c], h.idx + 1, clock)
    IN  /\ sessions' = [ sessions EXCEPT ![c] = H.ss ]
        /\ clusterLogs' = [ clusterLogs EXCEPT ![c] = H.clog ]
        /\ handlers' = (handlers \ {h}) \cup (IF H.susp THEN {H.h} ELSE {})
        /\ UNCHANGED << sessOrder, ws, sockets, wsSubIdsByKey, wsSubKeyById,
                        wsPendingReqIdToKey, seenSignatures, volumeTimers, materializing,
                        preparing, submitting, engineCalls, lastResp, stream, clock >>

\* the session handler h is working on, and its frame at resumption
OwnerOf(h) == sessOrder[h.cluster][h.idx]
FrameOf(h) == Frame(sessions[h.cluster], clusterLogs[h.cluster], h)

\* the await of line 454 settles
InferSettles(h, outcome) ==
    /\ h \in handlers
    /\ h.pc = "infer"
    /\ Resumed(h, AfterInfer(FrameOf(h), OwnerOf(h), outcome, clock))
    /\ UNCHANGED << svc, tickArmed, intervals, routeCall, safetyCall >>

\* the await of line 507 settles
SafetySettles(h, outcome) ==
    /\ h \in handlers
    /\ h.pc = "safety"
    /\ Resumed(h, AfterSafety(FrameOf(h), OwnerOf(h), outcome))
    /\ UNCHANGED << svc, tickArmed, intervals, routeCall, safetyCall >>

\* the await of line 543 settles
ListSettles(h, outcome) ==
    /\ h \in handlers
    /\ h.pc = "list"
    /\ Resumed(h, AfterList(FrameOf(h), OwnerOf(h), outcome))
    /\ UNCHANGED << svc, tickArmed, intervals, routeCall, safetyCall >>

\* what an RPC read of the ledger can come to, and checkMintSafety's verdicts
RpcOutcomes == {"ok", "null", "throw"}
SafetyOk == [ threw |-> FALSE, ok |-> TRUE, reason |-> NULL ]
SafetyNo(reason) == [ threw |-> FALSE, ok |-> FALSE, reason |-> reason ]
SafetyThrew == [ threw |-> TRUE, ok |-> FALSE, reason |-> NULL ]

\* ------------------------------------------------------- checkMintSafety
\* What the RPC answers to one call: the mint account (found, its owner
\* program, whether its Token-2022 extensions hold a blocked type, the
\* parsed mint fields), the token supply, the largest accounts' amounts in
\* the order returned, and whether one of the three reads rejects.
MintAccount(found, owner, blockedExt, isInitialized, mintAuthority, freezeAuthority) ==
    [ found |-> found, owner |-> owner, blockedExt |-> blockedExt,
      isInitialized |-> isInitialized, mintAuthorityOption |-> mintAuthority,
      freezeAuthorityOption |-> freezeAuthority ]

RpcAnswers(acc, supply, amounts, rejects) ==
    [ acc |-> acc, supply |-> supply, amounts |-> amounts, rejects |-> rejects ]

RECURSIVE SumSeq(_)
SumSeq(q) == IF Len(q) = 0 THEN 0 ELSE q[1] + SumSeq(Tail(q))

\* amounts.slice(0, n)
SliceFirst(q, n) == IF Len(q) <= n THEN q ELSE SubSeq(q, 1, n)

nonZeroHolders(amounts) == Cardinality({ i \in 1..Len(amounts) : amounts[i] > 0 })

\* Number((x * 10_000n) / supply) / 100, kept in hundredths of a percent
PctOf(x, supply) == (x * 10000) \div supply

top1Pct(ans) == PctOf(IF Len(ans.amounts) > 0 THEN ans.amounts[1] ELSE 0, ans.supply)
top10Pct(ans) == PctOf(SumSeq(SliceFirst(ans.amounts, 10)), ans.supply)

\* a percentage in hundredths exceeds a cap given in percent
Exceeds(pct, capPct) == pct > capPct * 100

\* the holder-concentration gate that ignores the number of holders
ConcentrationAlways(a, ans) ==
    IF Exceeds(top1Pct(ans), a.maxTop1HolderPct) THEN SafetyNo("top1 too high")
    ELSE IF Exceeds(top10Pct(ans), a.maxTop10HolderPct) THEN SafetyNo("top10 too high")
    ELSE SafetyOk

\* lines 274-293: the holder-concentration gate
Concentration(a, ans) ==
    IF nonZeroHolders(ans.amounts) >= 5
    THEN IF Exceeds(top1Pct(ans), a.maxTop1HolderPct) THEN SafetyNo("top1 too high")
         ELSE IF Exceeds(top10Pct(ans), a.maxTop10HolderPct) THEN SafetyNo("top10 too high")
         ELSE SafetyOk
    ELSE SafetyOk

\* checkMintSafety(cfg = a) on the answers ans
checkMintSafety(a, ans) ==
    LET acc == ans.acc
        is2022 == acc.owner = "token-2022"
        isToken == acc.owner = "token"
    IN  IF ans.rejects THEN SafetyThrew
        ELSE IF ~acc.found THEN SafetyNo("mint account not found")
        ELSE IF ~isToken /\ ~is2022 THEN SafetyNo("not a token mint account")
        ELSE IF is2022 /\ ~a.allowToken2022 THEN SafetyNo("token-2022 not allowed")
        ELSE IF is2022 /\ acc.blockedExt THEN SafetyNo("token-2022 blocked extension")
        ELSE IF ~acc.isInitialized THEN SafetyNo("mint not initialized")
        ELSE IF a.requireMintAuthorityDisabled /\ acc.mintAuthorityOption /= 0
             THEN SafetyNo("mint authority still enabled")
        ELSE IF a.requireFreezeAuthorityDisabled /\ acc.freezeAuthorityOption /= 0
             THEN SafetyNo("freeze authority still enabled")
        ELSE IF ans.supply = 0 THEN SafetyNo("zero supply")
        ELSE Concentration(a, ans)

NoSafetyCall ==
    [ made |-> FALSE, cfg |-> AutoSnipeDefaults,
      ans |-> RpcAnswers(MintAccount(FALSE, "other", FALSE, FALSE, 0, 0), 0, << >>, FALSE),
      result |-> SafetyThrew ]

\* the await of line 507 settles with what checkMintSafety makes of ans
SafetyChecked(h, ans) ==
    LET result == checkMintSafety(h.cfg.autoSnipe, ans)
    IN  /\ h \in handlers
        /\ h.pc = "safety"
        /\ Resumed(h, AfterSafety(FrameOf(h), OwnerOf(h), result))
        /\ safetyCall' = [ made |-> TRUE, cfg |-> h.cfg.autoSnipe, ans |-> ans,
                           result |-> result ]
        /\ UNCHANGED << svc, tickArmed, intervals, routeCall >>

\* ---------------------------------------------- materializing unsigned txs
\* An unsigned transaction: what built it, and the memo it carries.
Memo(cfg, pa) ==
    [ mode |-> cfg.mode, phase |-> cfg.pumpFunPhase, source |-> pa.source,
      sig |-> pa.triggerSignature, mint |-> pa.targetMint ]
UnsignedTx(kind, memo) == [ kind |-> kind, memo |-> memo ]

\* The response an HTTP handler sends; flip alternates so that two equal
\* responses in a row are still two responses.
Respond(op, c, o, status, error) ==
    [ op |-> op, cluster |-> c, owner |-> o, status |-> status, error |-> error,
      flip |-> ~lastResp.flip ]

\* a GET /status request suspended inside materializePendingUnsignedTxsForSession
NewMat(c, o, s) ==
    [ cluster |-> c, owner |-> o, pc |-> "swap", cfg |-> s.config,
      pa |-> s.pendingAction, unsigned |-> << >> ]

\* lines 656-663: the liquidity placeholder warning
LiquidityWarned(s) ==
    IF s.config.mode /= "volume" /\ s.config.minLiquiditySol > 0
    THEN [ s EXCEPT !.logs = PushLog(@, "warn", "Liquidity filter is a template placeholder") ]
    ELSE s

StatusWritesKeepsFlag(s, unsigned) ==
    IF s.pendingAction /= Null
    THEN [ s EXCEPT !.pendingAction.unsignedTxsBase64 = unsigned ]
    ELSE s

\* GET /status, lines 202-206: materialize resolved with unsigned
StatusWrites(s, unsigned) ==
    IF s.pendingAction /= Null
    THEN [ s EXCEPT !.pendingAction.unsignedTxsBase64 = unsigned,
                    !.pendingAction.needsUnsignedTxs = FALSE ]
    ELSE s

StatusCatchesNoBackoff(s, now) ==
    [ s EXCEPT !.logs = PushLog(@, "error", "Failed to build unsigned txs"),
               !.pendingAction = Null ]

\* GET /status, lines 207-212: materialize rejected
StatusCatches(s, now) ==
    LET s1 == [ s EXCEPT !.logs = PushLog(@, "error", "Failed to build unsigned txs"),
                         !.pendingAction = Null ]
    IN  IF s1.config /= Null /\ s1.config.mode = "volume"
        THEN [ s1 EXCEPT !.lastVolumeActionMs = now ]
        ELSE s1

\* GET /status?owner=o up to the first await of the materializer
StatusBegin(c, o) ==
    LET s == sessions[c][o]
        pa == s.pendingAction
        needs == pa /= Null /\ pa.needsUnsignedTxs
        cfg == s.config
        returnsNull == cfg = Null \/ (cfg.mode = "volume" /\ ~cfg.volumeEnabled)
        throwsNow == cfg.mode = "volume" /\ cfg.volumeTokenMint = ""
    IN  /\ Cardinality(materializing) < MaxInFlight
        /\ Len(sessions[c][o].logs) < MaxLogs
        /\ sessOrder' = [ sessOrder EXCEPT ![c] = OrderWith(@, o) ]
        /\ lastResp' = IF needs /\ ~returnsNull /\ ~throwsNow THEN lastResp
                        ELSE Respond("status", c, o, 200, NULL)
        /\ IF ~needs \/ returnsNull
           THEN UNCHANGED << sessions, materializing >>
           ELSE IF throwsNow
           THEN /\ sessions' = [ sessions EXCEPT ![c][o] = StatusCatches(LiquidityWarned(s), clock) ]
                /\ UNCHANGED materializing
           ELSE /\ sessions' = [ sessions EXCEPT ![c][o] = LiquidityWarned(s) ]
                /\ materializing' = materializing \cup { NewMat(c, o, s) }
        /\ UNCHANGED << svc, tickArmed, intervals, routeCall, safetyCall, ws, sockets, wsSubIdsByKey, wsSubKeyById, wsPendingReqIdToKey,
                        seenSignatures, clusterLogs, handlers, volumeTimers, preparing,
                        submitting, engineCalls, stream, clock >>

\* the order of the chain: Jupiter (line 681), PumpPortal pool "pump"
\* (line 716), PumpPortal pool "raydium" (line 733)
RouteOrder == << "jupiter", "pumpfun", "raydium" >>

\* line 747-751: the error thrown when no route built a buy
NoSwapRoute(jupiterErr, lastErr) ==
    [ msg |-> "No swap route", jupiterErr |-> jupiterErr, lastErr |-> lastErr ]

NoRouteError == NoSwapRoute(NULL, NULL)

\* a chain that asks the raydium pool before the pump pool
VolumeRouteRaydiumFirst(cfg, jup, pump, ray) ==
    LET jupOk == jup = "ok" \/ (jup = "failSell" /\ ~cfg.volumeRoundtrip)
    IN  IF jupOk
        THEN [ route |-> "jupiter", warn |-> FALSE,
               unsigned |-> << UnsignedTx("jupiter-buy", Null) >>,
               attempts |-> << "jupiter" >>, raised |-> {}, error |-> NoRouteError ]
        ELSE IF ray
        THEN [ route |-> "raydium", warn |-> cfg.volumeRoundtrip,
               unsigned |-> << UnsignedTx("pumpportal-raydium-buy", Null) >>,
               attempts |-> << "jupiter", "raydium" >>, raised |-> {"jupiter"},
               error |-> NoRouteError ]
        ELSE [ route |-> "pumpfun", warn |-> cfg.volumeRoundtrip,
               unsigned |-> << UnsignedTx("pumpportal-pump-buy", Null) >>,
               attempts |-> << "jupiter", "raydium", "pumpfun" >>,
               raised |-> {"jupiter", "raydium"}, error |-> NoRouteError ]

\* lines 677-765: what the volume route chain builds.  jup is "ok",
\* "failBuy" or "failSell"; pump and ray tell whether PumpPortal builds the
\* buy on that pool.  route is NULL when no route is left (the chain throws).
\* attempts are the routes called, in order, raised those that threw, error
\* what line 747 throws: the causes are named by the route that raised them.
VolumeRoute(cfg, jup, pump, ray) ==
    LET jupOk == jup = "ok" \/ (jup = "failSell" /\ ~cfg.volumeRoundtrip)
        partial == IF jup = "failSell" THEN << UnsignedTx("jupiter-buy", Null) >> ELSE << >>
    IN  IF jupOk
        THEN [ route |-> "jupiter", warn |-> FALSE,
               unsigned |-> IF cfg.volumeRoundtrip
                            THEN << UnsignedTx("jupiter-buy", Null), UnsignedTx("jupiter-sell", Null) >>
                            ELSE << UnsignedTx("jupiter-buy", Null) >>,
               attempts |-> SubSeq(RouteOrder, 1, 1), raised |-> {},
               error |-> NoRouteError ]
        ELSE IF pump
        THEN [ route |-> "pumpfun", warn |-> cfg.volumeRoundtrip,
               unsigned |-> Append(partial, UnsignedTx("pumpportal-pump-buy", Null)),
               attempts |-> SubSeq(RouteOrder, 1, 2), raised |-> {"jupiter"},
               error |-> NoRouteError ]
        ELSE IF ray
        THEN [ route |-> "raydium", warn |-> cfg.volumeRoundtrip,
               unsigned |-> Append(partial, UnsignedTx("pumpportal-raydium-buy", Null)),
               attempts |-> RouteOrder, raised |-> {"jupiter", "pumpfun"},
               error |-> NoRouteError ]
        ELSE [ route |-> NULL, warn |-> FALSE, unsigned |-> partial,
               attempts |-> RouteOrder, raised |-> {"jupiter", "pumpfun", "raydium"},
               error |-> NoSwapRoute("jupiter", "raydium") ]

NoRouteCall ==
    [ made |-> FALSE, roundtrip |-> FALSE, jup |-> "ok", route |-> NULL,
      attempts |-> << >>, raised |-> {}, unsigned |-> << >>, error |-> NoRouteError ]

\* materialize has built its swap transactions (unsigned) for request m on
\* session record s1: lines 767-783, then either the tip await or the return
AfterSwap(m, s1, unsigned) ==
    LET c == m.cluster
        o == m.owner
        s2 == [ s1 EXCEPT !.logs = PushLog(@, "warn", "MEV enabled but cluster=devnet") ]
    IN  IF m.cfg.mevEnabled /\ c /= Devnet
        THEN /\ sessions' = [ sessions EXCEPT ![c][o] = s1 ]
             /\ materializing' = (materializing \ {m}) \cup
                                   { [ m EXCEPT !.pc = "tip", !.unsigned = unsigned ] }
             /\ engineCalls' = [ engineCalls EXCEPT ![c] = @ \cup {"getTipAccounts"} ]
             /\ UNCHANGED lastResp
        ELSE /\ sessions' = [ sessions EXCEPT ![c][o] =
                                StatusWrites(IF m.cfg.mevEnabled THEN s2 ELSE s1, unsigned) ]
             /\ materializing' = materializing \ {m}
             /\ lastResp' = Respond("status", c, o, 200, NULL)
             /\ UNCHANGED engineCalls

\* the materializer's failure reaches the catch of GET /status
MatFails(m) ==
    /\ sessions' = [ sessions EXCEPT ![m.cluster][m.owner] = StatusCatches(@, clock) ]
    /\ materializing' = materializing \ {m}
    /\ lastResp' = Respond("status", m.cluster, m.owner, 200, NULL)
    /\ UNCHANGED engineCalls

\* the await of buildUnsignedBuyLikeTxBase64 (line 769) settles
MatBuySettles(m, ok) ==
    /\ m \in materializing
    /\ m.pc = "swap"
    /\ m.cfg.mode /= "volume"
    /\ IF ok
       THEN AfterSwap(m, sessions[m.cluster][m.owner],
                      << UnsignedTx("buy", Memo(m.cfg, m.pa)) >>)
       ELSE MatFails(m)
    /\ UNCHANGED << svc, tickArmed, intervals, routeCall, safetyCall, sessOrder, ws, sockets, wsSubIdsByKey, wsSubKeyById,
                    wsPendingReqIdToKey, seenSignatures, clusterLogs, handlers,
                    volumeTimers, preparing, submitting, stream, clock >>

\* the volume route chain (lines 677-765) settles
MatRouteSettles(m, jup, pump, ray) ==
    LET r == VolumeRoute(m.cfg, jup, pump, ray)
        s == sessions[m.cluster][m.owner]
        s1 == IF r.warn
              THEN [ s EXCEPT !.logs = PushLog(@, "warn", "Roundtrip is not supported for PumpPortal routes") ]
              ELSE s
    IN  /\ m \in materializing
        /\ m.pc = "swap"
        /\ m.cfg.mode = "volume"
        /\ IF r.route /= NULL
           THEN AfterSwap(m, [ s1 EXCEPT !.lastVolumeRoute = r.route ], r.unsigned)
           ELSE MatFails(m)
        /\ routeCall' = [ made |-> TRUE, roundtrip |-> m.cfg.volumeRoundtrip, jup |-> jup,
                          route |-> r.route, attempts |-> r.attempts, raised |-> r.raised,
                          unsigned |-> r.unsigned, error |-> r.error ]
        /\ UNCHANGED << svc, tickArmed, intervals, safetyCall, sessOrder, ws, sockets, wsSubIdsByKey, wsSubKeyById,
                        wsPendingReqIdToKey, seenSignatures, clusterLogs, handlers,
                        volumeTimers, preparing, submitting, stream, clock >>

TipFirst(unsigned, tip) == << tip >> \o unsigned

\* line 793: unsigned.push(tipTx)
PushTip(unsigned, tip) == Append(unsigned, tip)

\* the awaits of the tip transaction (lines 783-798) settle
MatTipSettles(m, ok) ==
    LET c == m.cluster
        o == m.owner
        s == sessions[c][o]
        tip == UnsignedTx("tip", [ Memo(m.cfg, m.pa) EXCEPT !.sig = << "tip", 0 >>, !.mint = NULL ])
        s1 == [ s EXCEPT !.logs = PushLog(@, "warn", "Jito tip unavailable; proceeding without tip") ]
    IN  /\ m \in materializing
        /\ m.pc = "tip"
        /\ sessions' = [ sessions EXCEPT ![c][o] =
                           IF ok THEN StatusWrites(s, PushTip(m.unsigned, tip))
                           ELSE StatusWrites(s1, m.unsigned) ]
        /\ materializing' = materializing \ {m}
        /\ lastResp' = Respond("status", c, o, 200, NULL)
        /\ UNCHANGED << svc, tickArmed, intervals, routeCall, safetyCall, sessOrder, ws, sockets, wsSubIdsByKey, wsSubKeyById,
                        wsPendingReqIdToKey, seenSignatures, clusterLogs, handlers,
                        volumeTimers, preparing, submitting, engineCalls, stream, clock >>

\* ------------------------------------------------------------- bundles
\* A request body of POST /prepare-bundle that passed validation: n signed
\* transactions, whether they deserialize, and whether the last one is a
\* system transfer to a tip account.
SignedTxs(n, decodes, tipLast) == [ n |-> n, decodes |-> decodes, tipLast |-> tipLast ]

DevnetRefusal == "Jito bundles are mainnet-only"

AcceptsAnyCluster(c) == FALSE

\* the devnet guards of lines 389 and 468
RefusesBundles(c) == c = Devnet

\* uuidv4(): an id no bundle of the session has
FreshBundleId(s) == CHOOSE id \in BundleIds :
                        /\ s.bundles[id] = Null
                        /\ \A j \in BundleIds : s.bundles[j] = Null => id <= j

PreparedBundle(id, body, now) ==
    [ bundleId |-> id, encodedTransactionsBase58 |-> body.n, createdAtMs |-> now ]

BundleStatus(id, body, now) ==
    [ bundleId |-> id, state |-> "prepared", createdAtMs |-> now, lastUpdateMs |-> now,
      jitoStatus |-> "sim", jitoBundleId |-> NULL, error |-> NULL, txSignatures |-> body.n ]

\* POST /prepare-bundle up to its first await (lines 376-403)
PrepareBegin(c, o, body) ==
    LET s == sessions[c][o]
        s1 == [ s EXCEPT !.logs = PushLog(@, "error", "prepare-bundle failed") ]
    IN  /\ Cardinality(preparing) < MaxInFlight
        /\ Len(sessions[c][o].logs) < MaxLogs
        /\ sessOrder' = [ sessOrder EXCEPT ![c] = OrderWith(@, o) ]
        /\ IF RefusesBundles(c)
           THEN /\ lastResp' = Respond("prepare-bundle", c, o, 400, DevnetRefusal)
                /\ UNCHANGED << sessions, preparing, engineCalls >>
           ELSE IF ~body.decodes
           THEN /\ lastResp' = Respond("prepare-bundle", c, o, 500, "prepare-bundle failed")
                /\ sessions' = [ sessions EXCEPT ![c][o] = s1 ]
                /\ UNCHANGED << preparing, engineCalls >>
           ELSE /\ preparing' = preparing \cup
                                  { [ cluster |-> c, owner |-> o, body |-> body, pc |-> "tip" ] }
                /\ engineCalls' = [ engineCalls EXCEPT ![c] = @ \cup {"getTipAccounts"} ]
                /\ UNCHANGED << sessions, lastResp >>
        /\ UNCHANGED << svc, tickArmed, intervals, routeCall, safetyCall, ws, sockets, wsSubIdsByKey, wsSubKeyById, wsPendingReqIdToKey,
                        seenSignatures, clusterLogs, handlers, volumeTimers, materializing,
                        submitting, stream, clock >>

NoTipDetected == "No Jito tip tx detected as last tx"

TipLookupFailed == "Failed to validate Jito tip accounts"

TipWarningOnLookupFailure(ok, tipLast) == IF ~ok THEN TipLookupFailed ELSE NULL

\* lines 402-410: the warning of the tip validation, NULL when there is none
TipWarning(ok, tipLast) ==
    IF ~ok THEN TipLookupFailed
    ELSE IF ~tipLast THEN NoTipDetected
    ELSE NULL

\* the await of jito.getTipAccounts (line 403) settles; simulateBundle is called
PrepareTipSettles(p, ok) ==
    LET c == p.cluster
        o == p.owner
        warn == TipWarning(ok, p.body.tipLast)
    IN  /\ p \in preparing
        /\ p.pc = "tip"
        /\ sessions' = [ sessions EXCEPT ![c] =
                           IF warn = NULL THEN @
                           ELSE pushSessionLog(@, o, "warn", warn) ]
        /\ preparing' = (preparing \ {p}) \cup { [ p EXCEPT !.pc = "sim" ] }
        /\ engineCalls' = [ engineCalls EXCEPT ![c] = @ \cup {"simulateBundle"} ]
        /\ UNCHANGED << svc, tickArmed, intervals, routeCall, safetyCall, sessOrder, ws, sockets, wsSubIdsByKey, wsSubKeyById,
                        wsPendingReqIdToKey, seenSignatures, clusterLogs, handlers,
                        volumeTimers, materializing, submitting, lastResp, stream, clock >>

PreparedKeepsAction(s, body, now) ==
    LET id == FreshBundleId(s)
    IN  [ s EXCEPT !.preparedBundles[id] = PreparedBundle(id, body, now),
                   !.bundles[id] = BundleStatus(id, body, now),
                   !.logs = PushLog(@, "info", "Bundle prepared (simulated)") ]

\* a preparation that stores the transactions without the status record
PreparedUnlisted(s, body, now) ==
    LET id == FreshBundleId(s)
    IN  [ s EXCEPT !.preparedBundles[id] = PreparedBundle(id, body, now),
                   !.pendingAction = Null,
                   !.logs = PushLog(@, "info", "Bundle prepared (simulated)") ]

\* lines 418-448: the session after a successful simulation
Prepared(s, body, now) ==
    LET id == FreshBundleId(s)
    IN  [ s EXCEPT !.preparedBundles[id] = PreparedBundle(id, body, now),
                   !.bundles[id] = BundleStatus(id, body, now),
                   !.pendingAction = Null,
                   !.logs = PushLog(@, "info", "Bundle prepared (simulated)") ]

\* the await of jito.simulateBundle (line 416) settles
PrepareSimSettles(p, ok) ==
    LET c == p.cluster
        o == p.owner
        s == sessions[c][o]
    IN  /\ p \in preparing
        /\ p.pc = "sim"
        /\ ok => \E id \in BundleIds : s.bundles[id] = Null
        /\ preparing' = preparing \ {p}
        /\ IF ok
           THEN /\ sessions' = [ sessions EXCEPT ![c][o] = Prepared(s, p.body, clock) ]
                /\ lastResp' = Respond("prepare-bundle", c, o, 200, NULL)
           ELSE /\ sessions' = [ sessions EXCEPT ![c] =
                                   pushSessionLog(@, o, "error", "prepare-bundle failed") ]
                /\ lastResp' = Respond("prepare-bundle", c, o, 500, "prepare-bundle failed")
        /\ UNCHANGED << svc, tickArmed, intervals, routeCall, safetyCall, sessOrder, ws, sockets, wsSubIdsByKey, wsSubKeyById,
                        wsPendingReqIdToKey, seenSignatures, clusterLogs, handlers,
                        volumeTimers, materializing, submitting, engineCalls, stream, clock >>

IsPreparedBySomeone(s, id) ==
    \E c \in Clusters, o \in Owners : sessions[c][o].preparedBundles[id] /= Null

\* line 472: session.preparedBundles.get(bundleId)
IsPrepared(s, id) == s.preparedBundles[id] /= Null

\* POST /submit-bundle up to its first await (lines 456-476)
SubmitBegin(c, o, id) ==
    LET s == sessions[c][o]
    IN  /\ Cardinality(submitting) < MaxInFlight
        /\ Len(sessions[c][o].logs) < MaxLogs
        /\ sessOrder' = [ sessOrder EXCEPT ![c] = OrderWith(@, o) ]
        /\ IF RefusesBundles(c)
           THEN /\ lastResp' = Respond("submit-bundle", c, o, 400, DevnetRefusal)
                /\ UNCHANGED << submitting, engineCalls >>
           ELSE IF ~IsPrepared(s, id)
           THEN /\ lastResp' = Respond("submit-bundle", c, o, 404, "Unknown bundleId")
                /\ UNCHANGED << submitting, engineCalls >>
           ELSE /\ submitting' = submitting \cup
                                   { [ cluster |-> c, owner |-> o, bundleId |-> id, pc |-> "send" ] }
                /\ engineCalls' = [ engineCalls EXCEPT ![c] = @ \cup {"sendBundle"} ]
                /\ UNCHANGED lastResp
        /\ UNCHANGED << svc, tickArmed, intervals, routeCall, safetyCall, sessions, ws, sockets, wsSubIdsByKey, wsSubKeyById,
                        wsPendingReqIdToKey, seenSignatures, clusterLogs, handlers,
                        volumeTimers, materializing, preparing, stream, clock >>

\* the await of jito.sendBundle (line 476) settles
SubmitSendSettles(r, ok) ==
    LET c == r.cluster
        o == r.owner
        id == r.bundleId
        s == sessions[c][o]
        sent == [ s.bundles[id] EXCEPT !.state = "submitted", !.lastUpdateMs = clock,
                                       !.jitoBundleId = "jito-id", !.jitoStatus = "send" ]
        failed == [ s.bundles[id] EXCEPT !.state = "error", !.lastUpdateMs = clock,
                                         !.error = "sendBundle failed" ]
        s1 == IF s.bundles[id] = Null THEN s
              ELSE [ s EXCEPT !.bundles[id] = IF ok THEN sent ELSE failed ]
    IN  /\ r \in submitting
        /\ r.pc = "send"
        /\ sessions' = [ sessions EXCEPT ![c][o] =
              [ s1 EXCEPT !.logs = IF ok THEN PushLog(@, "info", "Bundle submitted to Jito")
                                   ELSE PushLog(@, "error", "sendBundle failed") ] ]
        /\ IF ok
           THEN /\ submitting' = (submitting \ {r}) \cup { [ r EXCEPT !.pc = "poll" ] }
                /\ engineCalls' = [ engineCalls EXCEPT ![c] = @ \cup {"getBundleStatuses"} ]
                /\ UNCHANGED lastResp
           ELSE /\ submitting' = submitting \ {r}
                /\ lastResp' = Respond("submit-bundle", c, o, 500, "sendBundle failed")
                /\ UNCHANGED engineCalls
        /\ UNCHANGED << svc, tickArmed, intervals, routeCall, safetyCall, sessOrder, ws, sockets, wsSubIdsByKey, wsSubKeyById,
                        wsPendingReqIdToKey, seenSignatures, clusterLogs, handlers,
                        volumeTimers, materializing, preparing, stream, clock >>

\* the await of jito.getBundleStatuses (line 491) settles
SubmitPollSettles(r, ok) ==
    LET c == r.cluster
        o == r.owner
        id == r.bundleId
        s == sessions[c][o]
    IN  /\ r \in submitting
        /\ r.pc = "poll"
        /\ sessions' = IF ok /\ s.bundles[id] /= Null
                       THEN [ sessions EXCEPT ![c][o].bundles[id] =
                                [ @ EXCEPT !.lastUpdateMs = clock, !.jitoStatus = "poll" ] ]
                       ELSE sessions
        /\ submitting' = submitting \ {r}
        /\ lastResp' = Respond("submit-bundle", c, o, 200, NULL)
        /\ UNCHANGED << svc, tickArmed, intervals, routeCall, safetyCall, sessOrder, ws, sockets, wsSubIdsByKey, wsSubKeyById,
                        wsPendingReqIdToKey, seenSignatures, clusterLogs, handlers,
                        volumeTimers, materializing, preparing, engineCalls, stream, clock >>

\* --------------------------------------------------- block-engine RPC
\* services/jito.ts.  A response of the block engine to one HTTP request:
\* "ok" (2xx with a JSON result), "429", "http" (another non-2xx status),
\* "empty" (2xx without a JSON body), "rpcError" (2xx with a JSON-RPC
\* error), "network" (fetch rejects).
JitoResponses == { "ok", "429", "http", "empty", "rpcError", "network" }

JitoMethods == { "getTipAccounts", "simulateBundle", "sendBundle", "getBundleStatuses" }

\* jitoRpc, line 15
maxAttempts == 3

\* no call of jitoRpc yet
NoJitoRpc == [ pc |-> "idle", method |-> NULL, attempt |-> 0, sent |-> 0, got |-> << >> ]

\* jitoRpc is called: the loop starts and sends the first request (line 20)
JitoRpcCall(method) ==
    /\ jitoRpc.pc \in { "idle", "returned", "threw" }
    /\ jitoRpc' = [ pc |-> "fetch", method |-> method, attempt |-> 1, sent |-> 1,
                    got |-> << >> ]
    /\ UNCHANGED << core, clock, tlv, tipAccountsCache, tipCalls, rpcInFlight, rpcQueues, rpcCallers >>

\* lines 26-48: what the loop does with the response of its request.  The
\* errors of lines 38, 40 and 41 are thrown inside the try of line 19 and,
\* like a rejected fetch, land in the catch of line 43.
jitoRpcAfter(call, resp) ==
    LET c1 == [ call EXCEPT !.got = Append(@, resp) ]
    IN  IF resp = "ok" THEN [ c1 EXCEPT !.pc = "returned" ]
        ELSE IF resp = "429" /\ call.attempt < maxAttempts
             THEN [ c1 EXCEPT !.pc = "sleep" ]
        ELSE IF call.attempt < maxAttempts
             THEN [ c1 EXCEPT !.attempt = @ + 1, !.sent = @ + 1 ]
        ELSE [ c1 EXCEPT !.pc = "threw" ]

\* the await of fetch (line 20) settles
JitoRpcResponds(resp) ==
    /\ jitoRpc.pc = "fetch"
    /\ jitoRpc' = jitoRpcAfter(jitoRpc, resp)
    /\ UNCHANGED << core, clock, tlv, tipAccountsCache, tipCalls, rpcInFlight, rpcQueues, rpcCallers >>

\* the backoff of line 34 is over: continue with the next attempt
JitoRpcWakes ==
    /\ jitoRpc.pc = "sleep"
    /\ jitoRpc' = [ jitoRpc EXCEPT !.pc = "fetch", !.attempt = @ + 1, !.sent = @ + 1 ]
    /\ UNCHANGED << core, clock, tlv, tipAccountsCache, tipCalls, rpcInFlight, rpcQueues, rpcCallers >>

\* ------------------------------------------------- tip-account cache
\* getTipAccounts, line 66: 30 * 60_000
TipCacheTtlMs == 1800000

\* the lists a getTipAccounts request of the block engine can return
TipLists == { << >>, << "tipA" >>, << "tipB" >> }

\* line 66: there is an entry and it is younger than 30 minutes.  Date.now()
\* is positive, so fetchedAtMs = 0 stands for "no entry".
TipCacheFresh(cached, now) ==
    cached.fetchedAtMs /= 0 /\ now - cached.fetchedAtMs < TipCacheTtlMs

\* jito.getTipAccounts up to its first await (lines 63-69): answer from the
\* cache, or call jitoRpc.  The call keeps the entry and the time it read.
GetTipAccounts(c) ==
    LET cached == tipAccountsCache[c]
        call == [ id |-> Cardinality(tipCalls) + 1, cluster |-> c, now |-> clock,
                  cached |-> cached ]
    IN  /\ Cardinality(tipCalls) < MaxTipCalls
        /\ tipCalls' = tipCalls \cup
               { IF TipCacheFresh(cached, clock)
                 THEN call @@ [ pc |-> "returned", io |-> FALSE, result |-> cached.accounts ]
                 ELSE call @@ [ pc |-> "rpc", io |-> TRUE, result |-> << >> ] }
        /\ UNCHANGED << core, clock, tlv, tipAccountsCache, jitoRpc, rpcInFlight, rpcQueues, rpcCallers >>

\* lines 69-71: jitoRpc returned the list
TipRpcReturns(call, accounts) ==
    /\ call \in tipCalls /\ call.pc = "rpc"
    /\ tipAccountsCache' = [ tipAccountsCache EXCEPT ![call.cluster] =
                               [ accounts |-> accounts, fetchedAtMs |-> call.now ] ]
    /\ tipCalls' = (tipCalls \ { call }) \cup
                       { [ call EXCEPT !.pc = "returned", !.result = accounts ] }
    /\ UNCHANGED << core, clock, tlv, jitoRpc, rpcInFlight, rpcQueues, rpcCallers >>

\* lines 72-76: jitoRpc threw
TipRpcThrows(call) ==
    /\ call \in tipCalls /\ call.pc = "rpc"
    /\ tipCalls' = (tipCalls \ { call }) \cup
           { IF Len(call.cached.accounts) > 0
             THEN [ call EXCEPT !.pc = "returned", !.result = call.cached.accounts ]
             ELSE [ call EXCEPT !.pc = "threw" ] }
    /\ UNCHANGED << core, clock, tlv, tipAccountsCache, jitoRpc, rpcInFlight, rpcQueues, rpcCallers >>

\* Date.now() moves on, by a second or by a second less than 30 minutes
TipTimePasses(d) ==
    /\ d = TickMs => (clock - ClockStart) % (TipCacheTtlMs - TickMs) < MaxClock * TickMs
    /\ d /= TickMs => (clock - ClockStart) \div (TipCacheTtlMs - TickMs) < MaxTipAges
    /\ clock' = clock + d
    /\ UNCHANGED << core, svc >>

\* ------------------------------------------------ mint account data
\* parseMintAccount, line 122: the SPL mint layout
MintLayoutBytes == 82

\* The data of a mint account: the number of bytes it has of the mint
\* layout, and the bytes that follow byte 82.
MintData(base, ext) == [ base |-> base, ext |-> ext ]

DataLength(data) == data.base + Len(data.ext)

\* Buffer.readUInt16LE at index i (from 1) of the bytes after the layout
u16le(ext, i) == ext[i] + 256 * ext[i + 1]

\* the while loop of lines 138-145, at offset off (from 0) of the extension
\* bytes with the types pushed so far
RECURSIVE tlvLoop(_, _, _)
tlvLoop(ext, off, types) ==
    IF off + 4 > Len(ext) THEN types
    ELSE LET type == u16le(ext, off + 1)
             len == u16le(ext, off + 3)
         IN  IF off + 4 + len > Len(ext) THEN types
             ELSE tlvLoop(ext, off + 4 + len, Append(types, type))

\* lines 131-147
parseToken2022ExtensionTypes(data) ==
    IF DataLength(data) <= MintLayoutBytes THEN << >>
    ELSE tlvLoop(data.ext, 0, << >>)

\* the account data a node can return for a mint: short of the layout, the
\* layout alone, or the layout followed by extension bytes
Bytes == 0..MaxByte
ExtBytes == UNION { [ 1..n -> Bytes ] : n \in 0..MaxExtBytes }
MintDatas == { MintData(b, << >>) : b \in { 0, MintLayoutBytes - 1, MintLayoutBytes } }
                 \cup { MintData(MintLayoutBytes, ext) : ext \in ExtBytes }

\* checkMintSafety parses the extensions of the account data it fetched
ParseExtensions(data) ==
    /\ tlv' = [ data |-> data, types |-> parseToken2022ExtensionTypes(data) ]
    /\ UNCHANGED << core, clock, tipAccountsCache, tipCalls, jitoRpc, rpcInFlight, rpcQueues, rpcCallers >>

\* ------------------------------------------------------- RPC limiter
\* withRpcLimit (heliusMonitor.ts lines 66-85)
Callers == 1..MaxCallers

\* the default of the limit parameter, line 69
RpcLimit == 2

NoCaller == [ pc |-> "out", cluster |-> NULL ]

\* withRpcLimit up to its first await (lines 70-78): wait in the queue of the
\* cluster when the limit is reached, else count the call and start fn
WithRpcLimit(i, c) ==
    /\ rpcCallers[i].pc = "out"
    /\ IF rpcInFlight[c] >= RpcLimit
       THEN /\ rpcQueues' = [ rpcQueues EXCEPT ![c] = Append(@, i) ]
            /\ rpcCallers' = [ rpcCallers EXCEPT ![i] = [ pc |-> "waiting", cluster |-> c ] ]
            /\ UNCHANGED rpcInFlight
       ELSE /\ rpcInFlight' = [ rpcInFlight EXCEPT ![c] = @ + 1 ]
            /\ rpcCallers' = [ rpcCallers EXCEPT ![i] = [ pc |-> "running", cluster |-> c ] ]
            /\ UNCHANGED rpcQueues
    /\ UNCHANGED << core, clock, tlv, tipAccountsCache, tipCalls, jitoRpc >>

\* a finally block that takes the first waiter off the queue without calling
\* its resolver
RpcBodySettlesSilently(i) ==
    LET c == rpcCallers[i].cluster
        q == rpcQueues[c]
    IN  /\ rpcCallers[i].pc = "running"
        /\ rpcInFlight' = [ rpcInFlight EXCEPT ![c] = @ - 1 ]
        /\ rpcQueues' = [ rpcQueues EXCEPT ![c] = IF q = << >> THEN q ELSE Tail(q) ]
        /\ rpcCallers' = [ rpcCallers EXCEPT ![i] = NoCaller ]
        /\ UNCHANGED << core, clock, tlv, tipAccountsCache, tipCalls, jitoRpc >>

\* fn() settles and the finally block runs (lines 80-84): give the slot back
\* and call the resolver of the first waiter, whose await then settles
RpcBodySettles(i) ==
    LET c == rpcCallers[i].cluster
        q == rpcQueues[c]
    IN  /\ rpcCallers[i].pc = "running"
        /\ rpcInFlight' = [ rpcInFlight EXCEPT ![c] = @ - 1 ]
        /\ rpcQueues' = [ rpcQueues EXCEPT ![c] = IF q = << >> THEN q ELSE Tail(q) ]
        /\ rpcCallers' = [ j \in Callers |->
               IF j = i THEN NoCaller
               ELSE IF q /= << >> /\ j = Head(q) THEN [ rpcCallers[j] EXCEPT !.pc = "woken" ]
               ELSE rpcCallers[j] ]
        /\ UNCHANGED << core, clock, tlv, tipAccountsCache, tipCalls, jitoRpc >>

\* a woken waiter resumes after the await of line 75: lines 77-79
RpcWaiterResumes(i) ==
    /\ rpcCallers[i].pc = "woken"
    /\ rpcInFlight' = [ rpcInFlight EXCEPT ![rpcCallers[i].cluster] = @ + 1 ]
    /\ rpcCallers' = [ rpcCallers EXCEPT ![i].pc = "running" ]
    /\ UNCHANGED << core, clock, tlv, tipAccountsCache, tipCalls, jitoRpc, rpcQueues >>

\* ------------------------------------------------------------ start-up
\* the module-level state of store.ts and heliusMonitor.ts after import,
\* the de-duplication sets apart
InitOthers ==
    /\ sessions = [ c \in Clusters |-> [ o \in Owners |-> makeSession(o) ] ]
    /\ sessOrder = [ c \in Clusters |-> << >> ]
    /\ ws = [ c \in Clusters |-> 0 ]
    /\ sockets = [ i \in SocketIds |-> NoSocket ]
    /\ wsSubIdsByKey = [ c \in Clusters |-> NoSubIds ]
    /\ wsSubKeyById = [ c \in Clusters |-> NoSubKeys ]
    /\ wsPendingReqIdToKey = [ c \in Clusters |-> NoSubKeys ]
    /\ clusterLogs = [ c \in Clusters |-> << >> ]
    /\ handlers = {}
    /\ volumeTimers = [ k \in Clusters \X Owners |-> 0 ]
    /\ materializing = {}
    /\ preparing = {}
    /\ submitting = {}
    /\ engineCalls = [ c \in Clusters |-> {} ]
    /\ lastResp = [ op |-> "none", cluster |-> NULL, owner |-> NULL, status |-> 0,
                    error |-> NULL, flip |-> FALSE ]
    /\ stream = [ c \in Clusters |-> NoStream ]
    /\ safetyCall = NoSafetyCall
    /\ routeCall = NoRouteCall
    /\ intervals = [ k \in Clusters \X Owners |-> 0 ]
    /\ tickArmed = [ k \in Clusters \X Owners |-> 0 ]
    /\ tipAccountsCache = [ c \in Clusters |-> NoTipCache ]
    /\ tipCalls = {}
    /\ jitoRpc = NoJitoRpc
    /\ rpcInFlight = [ c \in Clusters |-> 0 ]
    /\ rpcQueues = [ c \in Clusters |-> << >> ]
    /\ rpcCallers = [ i \in Callers |-> NoCaller ]
    /\ tlv = [ data |-> MintData(0, << >>), types |-> << >> ]
    /\ clock = ClockStart

Init ==
    /\ seenSignatures = [ c \in Clusters |-> << >> ]
    /\ InitOthers

\* ------------------------------------------- signals, start and stop
\* One wallet on mainnet sniping the mint list <<M1>> before migration; the
\* log stream carries the first MaxSigs signatures, which both mention M1.
NextSignals ==
    \/ Start("o1", ListConfig("pre", << "M1" >>))
    \/ Stop(Mainnet, "o1")
    \/ \E id \in SocketIds : WsOpen(id)
    \/ \E id \in SocketIds, k \in SourceKeys : WsSubReply(id, k)
    \/ \E id \in SocketIds, k \in SourceKeys, sig \in 1..MaxSigs : Notify(id, k, sig)
    \/ \E h \in handlers, outcome \in RpcOutcomes : ListSettles(h, outcome)
    \/ AckAction(Mainnet, "o1")

SpecSignals == Init /\ [][NextSignals]_vars

\* a step writes a new pending action into session (c, o)
Arms(c, o) ==
    /\ sessions'[c][o].pendingAction /= Null
    /\ sessions'[c][o].pendingAction /= sessions[c][o].pendingAction
    /\ sessions'[c][o].pendingAction.needsUnsignedTxs

\* C1: a write that arms pendingAction happens only while the session is
\* running and its pendingAction is null at the moment of the write, so an
\* armed pendingAction is never overwritten by a later signal or tick.
\* (Start clears the slot itself before it arms; it is the step that
\* changes the epoch.)
C1_ArmOnlyWhenIdle ==
    [][ \A c \in Clusters, o \in Owners :
          (Arms(c, o) /\ sessions'[c][o].epoch = sessions[c][o].epoch)
            => (sessions[c][o].running /\ sessions[c][o].pendingAction = Null) ]_vars

\* ------------------------------------- status polling and materialization
\* One wallet on mainnet sniping the list <<M1>> with MEV protection, while
\* its frontend polls GET /status and acknowledges actions.
NextStatus ==
    \/ Start("o1", ListConfig("pre", << "M1" >>))
    \/ Stop(Mainnet, "o1")
    \/ \E id \in SocketIds : WsOpen(id)
    \/ \E id \in SocketIds : WsSubReply(id, "pumpfun")
    \/ \E id \in SocketIds, sig \in 1..MaxSigs : Notify(id, "pumpfun", sig)
    \/ \E h \in handlers : ListSettles(h, "ok")
    \/ StatusBegin(Mainnet, "o1")
    \/ \E m \in materializing, ok \in BOOLEAN : MatBuySettles(m, ok)
    \/ \E m \in materializing, ok \in BOOLEAN : MatTipSettles(m, ok)
    \/ AckAction(Mainnet, "o1")

SpecStatus == Init /\ [][NextStatus]_vars

\* ------------------------------------------------ volume loop and signals
\* One wallet on mainnet that snipes the list <<M1>> or cycles volume, with
\* the log stream carrying the first MaxVolumeSigs signatures.
MaxVolumeSigs == 1

VolumeConfigs ==
    { [ ListConfig("pre", << "M1" >>) EXCEPT !.mevEnabled = FALSE ],
      VolumeConfig(TRUE, FALSE) }

NextVolume ==
    \/ \E cfg \in VolumeConfigs : Start("o1", cfg)
    \/ Stop(Mainnet, "o1")
    \/ \E id \in SocketIds : WsOpen(id)
    \/ \E id \in SocketIds, k \in SourceKeys : WsSubReply(id, k)
    \/ \E id \in SocketIds, k \in SourceKeys, sig \in 1..MaxVolumeSigs : Notify(id, k, sig)
    \/ \E h \in handlers : ListSettles(h, "ok")
    \/ TimerFire(Mainnet, "o1")
    \/ AdvanceClock
    \/ StatusBegin(Mainnet, "o1")
    \/ \E m \in materializing, ok \in BOOLEAN : MatBuySettles(m, ok)
    \/ \E m \in materializing, jup \in {"ok", "failBuy"}, pump \in BOOLEAN :
          MatRouteSettles(m, jup, pump, FALSE)

SpecVolume == Init /\ [][NextVolume]_vars

\* ------------------------------------------------- auto-discovery
\* One wallet on mainnet in pre-migration auto mode that asks for
\* MinMomentum signals from MinMomentum fee payers within one second.  The
\* stream carries two creations of M1 by two payers and a later buy of M1.
MinMomentum == 2
AutoSigs == { 1, 2, 4 }
SafetyVerdicts == { SafetyOk, SafetyNo("mint authority still enabled") }

NextAuto ==
    \/ Start("o1", AutoConfig(MinMomentum, MinMomentum))
    \/ \E id \in SocketIds : WsOpen(id)
    \/ \E id \in SocketIds : WsSubReply(id, "pumpfun")
    \/ \E id \in SocketIds, sig \in AutoSigs : Notify(id, "pumpfun", sig)
    \/ \E h \in handlers : InferSettles(h, "ok")
    \/ \E h \in handlers, outcome \in SafetyVerdicts : SafetySettles(h, outcome)
    \/ AdvanceClock

SpecAuto == Init /\ [][NextAuto]_vars

\* ------------------------------------------------- stopping mid-flight
\* The same wallet, started and stopped while the handler of the creation
\* of M1 is suspended on its RPC calls, which may fail.
NextStale ==
    \/ Start("o1", AutoConfig(1, 1))
    \/ Stop(Mainnet, "o1")
    \/ \E id \in SocketIds : WsOpen(id)
    \/ \E id \in SocketIds : WsSubReply(id, "pumpfun")
    \/ \E id \in SocketIds, sig \in 1..MaxSigs : Notify(id, "pumpfun", sig)
    \/ \E h \in handlers, outcome \in RpcOutcomes : InferSettles(h, outcome)
    \/ \E h \in handlers, outcome \in SafetyVerdicts \cup {SafetyThrew} :
          SafetySettles(h, outcome)

SpecStale == Init /\ [][NextStale]_vars

\* ---------------------------------------------------------- bundles
\* One wallet cycling volume with MEV protection on mainnet: its action is
\* materialized, the signed bundle prepared and submitted.
BundleBodies == { SignedTxs(2, TRUE, TRUE), SignedTxs(1, FALSE, FALSE) }

NextBundles ==
    \/ Start("o1", VolumeConfig(TRUE, TRUE))
    \/ StatusBegin(Mainnet, "o1")
    \/ \E m \in materializing : MatRouteSettles(m, "ok", FALSE, FALSE)
    \/ \E m \in materializing, ok \in BOOLEAN : MatTipSettles(m, ok)
    \/ \E body \in BundleBodies : PrepareBegin(Mainnet, "o1", body)
    \/ \E p \in preparing, ok \in BOOLEAN : PrepareTipSettles(p, ok)
    \/ \E p \in preparing, ok \in BOOLEAN : PrepareSimSettles(p, ok)
    \/ \E id \in BundleIds : SubmitBegin(Mainnet, "o1", id)
    \/ \E r \in submitting, ok \in BOOLEAN : SubmitSendSettles(r, ok)
    \/ \E r \in submitting, ok \in BOOLEAN : SubmitPollSettles(r, ok)

SpecBundles == Init /\ [][NextBundles]_vars

\* -------------------------------------------------- bundles on devnet
\* The same wallet on devnet, where bundles are refused.
NextDevnet ==
    \/ Start("o1", OnCluster(VolumeConfig(TRUE, TRUE), Devnet))
    \/ Stop(Devnet, "o1")
    \/ StatusBegin(Devnet, "o1")
    \/ \E m \in materializing, jup \in {"ok", "failBuy"}, pump \in BOOLEAN :
          MatRouteSettles(m, jup, pump, FALSE)
    \/ \E body \in BundleBodies : PrepareBegin(Devnet, "o1", body)
    \/ \E id \in BundleIds : SubmitBegin(Devnet, "o1", id)
    \/ AckAction(Devnet, "o1")

SpecDevnet == Init /\ [][NextDevnet]_vars

\* ------------------------------------------------------ deduplication
\* One wallet on mainnet sniping after migration in auto mode, and a long
\* stream on the raydium topic: every notification carries either the next
\* new signature or a tracked signature again.
NextDedup ==
    \/ /\ ~sessions[Mainnet]["o1"].running
       /\ Start("o1", PostAutoConfig)
    \/ \E id \in SocketIds : WsOpen(id)
    \/ \E id \in SocketIds : WsSubReply(id, "raydium")
    \/ \E id \in SocketIds :
          /\ stream[Mainnet].hi < MaxDedup
          /\ Notify(id, "raydium", stream[Mainnet].hi + 1)
    \/ \E id \in SocketIds, t \in Tracked :
          /\ t <= stream[Mainnet].hi
          /\ Notify(id, "raydium", t)

SpecDedup == Init /\ [][NextDedup]_vars

\* --------------------------------------------------------- safety check
\* One wallet on mainnet in auto mode that triggers on the first signal,
\* started with one of several pairs of holder caps; the creation of M1 is
\* signalled and checkMintSafety reads one of the chain states below.
HolderCaps == { << 20, 60 >>, << 0, 0 >>, << 100, 100 >> }

SafetyConfig(caps) ==
    [ AutoConfig(1, 1) EXCEPT !.autoSnipe.maxTop1HolderPct = caps[1],
                              !.autoSnipe.maxTop10HolderPct = caps[2] ]

GoodMint == MintAccount(TRUE, "token", FALSE, TRUE, 0, 0)

MintAccounts ==
    { GoodMint,
      MintAccount(FALSE, "other", FALSE, FALSE, 0, 0),
      MintAccount(TRUE, "other", FALSE, TRUE, 0, 0),
      MintAccount(TRUE, "token-2022", TRUE, TRUE, 0, 0),
      MintAccount(TRUE, "token-2022", FALSE, TRUE, 0, 0),
      MintAccount(TRUE, "token", FALSE, FALSE, 0, 0),
      MintAccount(TRUE, "token", FALSE, TRUE, 1, 0),
      MintAccount(TRUE, "token", FALSE, TRUE, 0, 1) }

Supplies == { 0, 100, 300 }

HolderLists ==
    { << >>,
      << 100 >>,
      << 60, 10, 10, 10 >>,
      << 60, 10, 10, 10, 0 >>,
      << 60, 10, 10, 10, 10 >>,
      << 15, 15, 15, 15, 15 >>,
      << 10, 10, 10, 10, 10 >>,
      << 5, 5, 5, 5, 5, 5, 5, 5, 5, 5, 5, 5, 5 >> }

NextSafety ==
    \/ \E caps \in HolderCaps :
          /\ ~sessions[Mainnet]["o1"].running
          /\ Start("o1", SafetyConfig(caps))
    \/ \E id \in SocketIds : WsOpen(id)
    \/ \E id \in SocketIds : WsSubReply(id, "pumpfun")
    \/ \E id \in SocketIds : Notify(id, "pumpfun", 1)
    \/ \E h \in handlers : InferSettles(h, "ok")
    \/ \E h \in handlers, acc \in MintAccounts, supply \in Supplies,
          amounts \in HolderLists, rejects \in BOOLEAN :
          SafetyChecked(h, RpcAnswers(acc, supply, amounts, rejects))

SpecSafety == Init /\ [][NextSafety]_vars

\* ------------------------------------------------------ tip transaction
\* One wallet, started on either cluster as a list sniper of M1 or as a
\* volume bot, with or without MEV protection; its actions are materialized
\* by GET /status, the builders and the tip-account provider may fail.
TipConfigs ==
    { OnCluster([ cfg EXCEPT !.mevEnabled = mev ], c) :
        cfg \in { ListConfig("pre", << "M1" >>), VolumeConfig(TRUE, TRUE) },
        mev \in BOOLEAN, c \in Clusters }

NextTip ==
    \/ \E cfg \in TipConfigs :
          /\ ~sessions[cfg.cluster]["o1"].running
          /\ Start("o1", cfg)
    \/ \E id \in SocketIds : WsOpen(id)
    \/ \E id \in SocketIds : WsSubReply(id, "pumpfun")
    \/ \E id \in SocketIds : Notify(id, "pumpfun", 1)
    \/ \E h \in handlers : ListSettles(h, "ok")
    \/ \E c \in Clusters : StatusBegin(c, "o1")
    \/ \E m \in materializing, ok \in BOOLEAN : MatBuySettles(m, ok)
    \/ \E m \in materializing, jup \in {"ok", "failBuy"}, pump \in BOOLEAN :
          MatRouteSettles(m, jup, pump, FALSE)
    \/ \E m \in materializing, ok \in BOOLEAN : MatTipSettles(m, ok)

SpecTip == Init /\ [][NextTip]_vars

\* ------------------------------------------------------ tip validation
\* Signed bundles of one wallet are prepared on either cluster: with or
\* without a tip transfer as last transaction, or undecodable; the
\* tip-account provider and the simulation may fail.
PrepareBodies ==
    { SignedTxs(2, TRUE, TRUE), SignedTxs(2, TRUE, FALSE), SignedTxs(1, FALSE, FALSE) }

NextPrepare ==
    \/ \E c \in Clusters, body \in PrepareBodies : PrepareBegin(c, "o1", body)
    \/ \E p \in preparing, ok \in BOOLEAN : PrepareTipSettles(p, ok)
    \/ \E p \in preparing, ok \in BOOLEAN : PrepareSimSettles(p, ok)

SpecPrepare == Init /\ [][NextPrepare]_vars

\* ---------------------------------------------------- volume routes
\* One wallet cycling volume on mainnet, one-leg or roundtrip, with or
\* without MEV protection; Jupiter may fail at the buy or at the sell leg,
\* PumpPortal on either pool.
RouteConfigs ==
    { [ VolumeConfig(TRUE, mev) EXCEPT !.volumeRoundtrip = rt ] : mev, rt \in BOOLEAN }

NextRoute ==
    \/ \E cfg \in RouteConfigs :
          /\ ~sessions[Mainnet]["o1"].running
          /\ Start("o1", cfg)
    \/ TimerFire(Mainnet, "o1")
    \/ AdvanceClock
    \/ StatusBegin(Mainnet, "o1")
    \/ \E m \in materializing, jup \in {"ok", "failBuy", "failSell"}, pump, ray \in BOOLEAN :
          MatRouteSettles(m, jup, pump, ray)
    \/ \E m \in materializing, ok \in BOOLEAN : MatTipSettles(m, ok)
    \/ AckAction(Mainnet, "o1")

SpecRoute == Init /\ [][NextRoute]_vars

\* ------------------------------------------------ socket life cycle
\* Two wallets of mainnet are started, as list snipers of M1 or as volume
\* bots, and stopped; the sockets open, get their subscriptions confirmed
\* and close, by Stop or by the node.
SocketConfigs == { ListConfig("pre", << "M1" >>), VolumeConfig(TRUE, FALSE) }

NextSockets ==
    \/ \E o \in Owners, cfg \in SocketConfigs : Start(o, cfg)
    \/ \E o \in Owners : Stop(Mainnet, o)
    \/ \E id \in SocketIds : WsOpen(id)
    \/ \E id \in SocketIds, k \in SourceKeys : WsSubReply(id, k)
    \/ \E id \in SocketIds : WsClose(id)

SpecSockets == Init /\ [][NextSockets]_vars

\* ------------------------------------------------------- submitting
\* Two wallets on mainnet, the first one running and preparing bundles
\* with a tip; both submit local ids of the first one, on either cluster;
\* sendBundle and getBundleStatuses may fail.
NextSubmit ==
    \/ /\ ~sessions[Mainnet]["o1"].running
       /\ Start("o1", VolumeConfig(FALSE, TRUE))
    \/ PrepareBegin(Mainnet, "o1", SignedTxs(2, TRUE, TRUE))
    \/ \E p \in preparing : PrepareTipSettles(p, TRUE)
    \/ \E p \in preparing : PrepareSimSettles(p, TRUE)
    \/ \E o \in Owners, id \in BundleIds : SubmitBegin(Mainnet, o, id)
    \/ \E id \in BundleIds : SubmitBegin(Devnet, "o1", id)
    \/ \E r \in submitting, ok \in BOOLEAN : SubmitSendSettles(r, ok)
    \/ \E r \in submitting, ok \in BOOLEAN : SubmitPollSettles(r, ok)

SpecSubmit == Init /\ [][NextSubmit]_vars

\* --------------------------------------------------- block-engine RPC
\* One jitoRpc call after the other, of any method, against a block engine
\* that answers each request in any of the ways it can.
NextJito ==
    \/ \E method \in JitoMethods : JitoRpcCall(method)
    \/ \E resp \in JitoResponses : JitoRpcResponds(resp)
    \/ JitoRpcWakes

SpecJito == Init /\ [][NextJito]_vars

\* ------------------------------------------------- tip-account cache
\* Callers of getTipAccounts on the mainnet block engine, one after the other
\* or at the same time, while time passes.
NextTipCache ==
    \/ GetTipAccounts(Mainnet)
    \/ \E call \in tipCalls, accounts \in TipLists : TipRpcReturns(call, accounts)
    \/ \E call \in tipCalls : TipRpcThrows(call)
    \/ \E d \in { TickMs, TipCacheTtlMs - TickMs } : TipTimePasses(d)

SpecTipCache == Init /\ [][NextTipCache]_vars

\* ------------------------------------------------------- RPC limiter
\* Callers of withRpcLimit on both clusters, in any interleaving of their
\* turns.
NextRpcLimit ==
    \/ \E i \in Callers, c \in Clusters : WithRpcLimit(i, c)
    \/ \E i \in Callers : RpcBodySettles(i)
    \/ \E i \in Callers : RpcWaiterResumes(i)

SpecRpcLimit == Init /\ [][NextRpcLimit]_vars

\* The same callers when every RPC body eventually returns or throws and the
\* event loop eventually runs the continuation of every resolved promise.
SpecRpcLimitFair ==
    /\ Init
    /\ [][NextRpcLimit]_vars
    /\ \A i \in Callers : WF_vars(RpcBodySettles(i)) /\ WF_vars(RpcWaiterResumes(i))

\* ---------------------------------------------------- message handler
\* One wallet starts and stops a pre-migration list session while the
\* sockets of the cluster deliver subscription replies, notifications with
\* and without signature and log lines, and data that is not JSON.
NextMessages ==
    \/ Start("o1", ListConfig("pre", << "M1" >>))
    \/ Stop(Mainnet, "o1")
    \/ \E id \in SocketIds : WsOpen(id)
    \/ \E id \in SocketIds : WsClose(id)
    \/ \E id \in SocketIds : WsSubReply(id, "pumpfun")
    \/ \E id \in SocketIds, sig \in 0..1 : Notify(id, "pumpfun", sig)
    \/ \E id \in SocketIds : NotifyNoLogs(id, "pumpfun", 1)
    \/ \E id \in SocketIds : WsGarbage(id)
    \/ \E h \in handlers, outcome \in RpcOutcomes : ListSettles(h, outcome)
    \/ AckAction(Mainnet, "o1")

SpecMessages == Init /\ [][NextMessages]_vars

\* ------------------------------------------------------ dedup trim
\* markSeenSignature on a mainnet set that already holds the signatures
\* 1..SeenCap-2 in the order of their arrival: the calls insert the next
\* signatures, in any order, and signatures that arrived before.
FreshSigs == (SeenCap - 1)..(SeenCap + MaxFresh)

InitTrim ==
    /\ seenSignatures = [ c \in Clusters |->
                            IF c = Mainnet THEN [ i \in 1..(SeenCap - 2) |-> i ] ELSE << >> ]
    /\ InitOthers

NextTrim ==
    \E sig \in FreshSigs \cup Tracked : MarkSeen(Mainnet, sig)

SpecTrim == InitTrim /\ [][NextTrim]_vars

\* ------------------------------------------------- session isolation
\* Wallet o1 cycles volume with MEV protection on mainnet and goes through
\* every route there, while the same wallet has a session on devnet and
\* wallet o2 has one on mainnet, each started once at any time.
FrameSessions == { << Mainnet, "o1" >>, << Mainnet, "o2" >>, << Devnet, "o1" >> }

NextFrame ==
    \/ \E k \in FrameSessions :
          /\ sessions[k[1]][k[2]].epoch = 0
          /\ Start(k[2], OnCluster(VolumeConfig(TRUE, TRUE), k[1]))
    \/ Stop(Mainnet, "o1")
    \/ StatusBegin(Mainnet, "o1")
    \/ \E m \in materializing : MatRouteSettles(m, "ok", FALSE, FALSE)
    \/ \E m \in materializing : MatTipSettles(m, TRUE)
    \/ AckAction(Mainnet, "o1")
    \/ PrepareBegin(Mainnet, "o1", SignedTxs(2, TRUE, TRUE))
    \/ \E p \in preparing : PrepareTipSettles(p, TRUE)
    \/ \E p \in preparing : PrepareSimSettles(p, TRUE)
    \/ SubmitBegin(Mainnet, "o1", 1)
    \/ \E r \in submitting : SubmitSendSettles(r, TRUE)
    \/ \E r \in submitting : SubmitPollSettles(r, TRUE)

SpecFrame == Init /\ [][NextFrame]_vars

\* ------------------------------------------------ extension parser
\* parseToken2022ExtensionTypes on every account data of the bound.
NextTlv == \E data \in MintDatas : ParseExtensions(data)

SpecTlv == Init /\ [][NextTlv]_vars

\* ------------------------------------------------------ target mint
\* One wallet on mainnet that snipes the list <<M1>> before migration and
\* is started again for auto sniping after migration; the stream carries the
\* creation of M1 (signature 1) and the pool initialisation that mentions
\* M2 (signature 6), on both topics.
TargetSigs == { 1, 6 }

NextTarget ==
    \/ \E cfg \in { ListConfig("pre", << "M1" >>), PostAutoConfig } : Start("o1", cfg)
    \/ \E id \in SocketIds : WsOpen(id)
    \/ \E id \in SocketIds, k \in SourceKeys : WsSubReply(id, k)
    \/ \E id \in SocketIds, k \in SourceKeys, sig \in TargetSigs : Notify(id, k, sig)
    \/ \E h \in handlers : ListSettles(h, "ok")
    \/ AckAction(Mainnet, "o1")

SpecTarget == Init /\ [][NextTarget]_vars

\* ------------------------------------------- sniping after migration
\* One wallet on mainnet in snipe/post/auto, started, stopped and started
\* again, acknowledging its actions; the raydium topic carries the creation
\* of M1, a pool initialisation and a transfer.
PostSigs == { 1, 6, 7 }

NextPostAuto ==
    \/ Start("o1", PostAutoConfig)
    \/ Stop(Mainnet, "o1")
    \/ \E id \in SocketIds : WsOpen(id)
    \/ \E id \in SocketIds : WsSubReply(id, "raydium")
    \/ \E id \in SocketIds, sig \in PostSigs : Notify(id, "raydium", sig)
    \/ AckAction(Mainnet, "o1")

SpecPostAuto == Init /\ [][NextPostAuto]_vars

\* ------------------------------------------------------- two topics
\* Two wallets on mainnet sniping the list <<M1>> before migration, the
\* first of which may stop; the creation of M1 (signature 1) and a buy of
\* M1 (signature 4) are notified on both topics, by stale sockets too.
TopicSigs == { 1, 4 }

NextTopics ==
    \/ \E o \in Owners :
          /\ sessions[Mainnet][o].epoch = 0
          /\ Start(o, ListConfig("pre", << "M1" >>))
    \/ Stop(Mainnet, "o1")
    \/ \E id \in SocketIds : WsOpen(id)
    \/ \E id \in SocketIds, k \in SourceKeys : WsSubReply(id, k)
    \/ \E id \in SocketIds, k \in SourceKeys, sig \in TopicSigs : Notify(id, k, sig)
    \/ \E h \in handlers : ListSettles(h, "ok")

SpecTopics == Init /\ [][NextTopics]_vars

\* ---------------------------------------------------------------- claims
\* the handler (or request) that takes the step
Stepping == handlers \ handlers'

\* C2: once Stop has returned, a handler of that session that was
\* suspended on an RPC changes nothing on the session when it resumes: not
\* pendingAction, not a per-mint entry, not the counters, not the log.
C2_StoppedHandlerWritesNothing ==
    [][ \A h \in Stepping :
          ~sessions[h.cluster][OwnerOf(h)].running
            => sessions'[h.cluster][OwnerOf(h)] = sessions[h.cluster][OwnerOf(h)] ]_vars

\* C6: when a GET /status request leaves the materializer and the action
\* it was building for has been replaced meanwhile, it leaves the newer
\* action alone: it neither writes its transactions into it nor clears it.
C6_StaleMaterializationDiscarded ==
    [][ \A m \in materializing \ materializing' :
          LET pa == sessions[m.cluster][m.owner].pendingAction
          IN  (pa /= Null /\ pa.triggerSignature /= m.pa.triggerSignature)
                => sessions'[m.cluster][m.owner].pendingAction = pa ]_vars

\* C7: a session that is not running has config = null and
\* pendingAction = null, whatever handlers, timers and materializations
\* are still in flight.
C7_StoppedIsClear ==
    \A c \in Clusters, o \in Owners :
        ~sessions[c][o].running
          => (sessions[c][o].config = Null /\ sessions[c][o].pendingAction = Null)

\* a stopped session with the materialization of its last action still in
\* flight and its volume timer cleared
C7_Witness ==
    /\ ~sessions[Mainnet]["o1"].running
    /\ sessions[Mainnet]["o1"].epoch = 2
    /\ materializing /= {}
    /\ volumeTimers[volumeKey(Mainnet, "o1")] = 0

\* C8: a log notification never arms a session with mode=volume: every
\* pending action of a volume session has source=volumeTimer.  (And a
\* snipe session is armed only from its phase's topic.)
C8_VolumeArmedByTimerOnly ==
    \A c \in Clusters, o \in Owners :
        LET s == sessions[c][o]
        IN  (s.config /= Null /\ s.pendingAction /= Null)
              => IF s.config.mode = "volume" THEN s.pendingAction.source = "volumeTimer"
                 ELSE s.pendingAction.source =
                        (IF s.config.pumpFunPhase = "pre" THEN "pumpfun" ELSE "raydium")

\* the step raises the triggered counter of session (c, o)
Triggers(c, o) ==
    /\ sessions[c][o].autoSnipeStats /= Null
    /\ sessions'[c][o].autoSnipeStats.triggered > sessions[c][o].autoSnipeStats.triggered

\* the conditions of a trigger by handler h, with the window and the age
\* measured at time at
TriggerConditions(h, at) ==
    LET s == sessions'[h.cluster][OwnerOf(h)]
        mint == s.matchedMints[1]
        st == s.autoMintStats[mint]
        a == h.cfg.autoSnipe
    IN  /\ s.pendingAction /= Null
        /\ s.pendingAction.targetMint = mint
        /\ at - st.firstSeenMs <= a.windowSec * 1000
        /\ (at - st.createdAtMs) \div 1000 <= a.maxTxAgeSec
        /\ st.count >= a.minSignalsInWindow
        /\ Cardinality(st.payers) >= a.minUniqueFeePayersInWindow
        /\ st.safety.ok

\* the step of handler h starts tracking only mints its signal creates
TracksOnlyCreated(h) ==
    \A m \in Mints :
        LET c == h.cluster
            o == OwnerOf(h)
        IN  (sessions[c][o].autoMintStats[m] = Null /\ sessions'[c][o].autoMintStats[m] /= Null)
              => (isCreateLikePumpfunLogs(Ledger(h.sig).logs) \/ isMintNewInTx(Ledger(h.sig), m))

\* C9 (as written): in auto mode a trigger for a mint occurs only if, at
\* the moment of the trigger, the entry was first seen at most windowSec
\* ago, its age is at most maxTxAgeSec, count and distinct payers reach
\* their minimums and the safety result is ok; and no mint is tracked
\* unless a create-like signal for it was seen first.
C9_TriggerWithinWindowAtTrigger ==
    [][ \A h \in Stepping :
          /\ Triggers(h.cluster, OwnerOf(h)) => TriggerConditions(h, clock)
          /\ TracksOnlyCreated(h) ]_vars

\* C9 (amended): the same, with the window and the age measured when the
\* triggering signal was counted (the handler's Date.now() of line 466,
\* taken before the safety check is awaited).
C9_TriggerWithinWindowWhenCounted ==
    [][ \A h \in Stepping :
          /\ Triggers(h.cluster, OwnerOf(h))
               => TriggerConditions(h, IF h.pc = "safety" THEN h.now ELSE clock)
          /\ TracksOnlyCreated(h) ]_vars

\* a buy of M1 was rejected as not new, then M1 was created and triggered
C9_Witness ==
    LET s == sessions[Mainnet]["o1"]
    IN  /\ s.autoSnipeStats /= Null
        /\ s.autoSnipeStats.triggered = 1
        /\ s.autoSnipeStats.rejects["notNew"] = 1
        /\ s.pendingAction /= Null
        /\ s.pendingAction.targetMint = "M1"

\* C10: for one opportunity (a new mint that passes safety, in one run of
\* the session) the triggered counter increases by exactly 1: only the
\* signal that brings count and payers to their minimums arms, earlier
\* signals arm nothing.
C10_OneTriggerPerOpportunity ==
    \A c \in Clusters, o \in Owners :
        LET s == sessions[c][o]
        IN  (s.epoch = 1 /\ s.autoSnipeStats /= Null) => s.autoSnipeStats.triggered <= 1

\* the step is a successful POST /prepare-bundle for request p
PrepareSucceeds(p) ==
    /\ p.pc = "sim"
    /\ lastResp' /= lastResp
    /\ lastResp'.op = "prepare-bundle"
    /\ lastResp'.status = 200

\* C3: every successful Prepare on mainnet inserts exactly one new entry,
\* under one fresh id, into both preparedBundles and bundles, with
\* state=prepared and the simulation result stored, and leaves
\* pendingAction null; the pendingAction slot holds at most one action.
C3_PrepareInsertsOneBundle ==
    [][ \A p \in preparing \ preparing' :
          LET s == sessions[p.cluster][p.owner]
              t == sessions'[p.cluster][p.owner]
          IN  /\ PrepareSucceeds(p) =>
                  /\ p.cluster = Mainnet
                  /\ t.pendingAction = Null
                  /\ \E id \in BundleIds :
                        /\ s.bundles[id] = Null /\ s.preparedBundles[id] = Null
                        /\ t.bundles[id] /= Null /\ t.preparedBundles[id] /= Null
                        /\ t.bundles[id].bundleId = id
                        /\ t.preparedBundles[id].bundleId = id
                        /\ t.preparedBundles[id].encodedTransactionsBase58 = p.body.n
                        /\ t.bundles[id].state = "prepared"
                        /\ t.bundles[id].jitoStatus = "sim"
                        /\ \A j \in BundleIds \ {id} :
                              /\ t.bundles[j] = s.bundles[j]
                              /\ t.preparedBundles[j] = s.preparedBundles[j]
              /\ (t.pendingAction = Null \/ t.pendingAction.type = "SIGN_AND_BUNDLE") ]_vars

\* a second bundle was prepared while the first was submitted, and the
\* timer-armed action, materialized before, is cleared
C3_Witness ==
    LET s == sessions[Mainnet]["o1"]
    IN  /\ lastResp.op = "prepare-bundle" /\ lastResp.status = 200
        /\ s.bundles[1] /= Null /\ s.bundles[1].state = "submitted"
        /\ s.bundles[2] /= Null /\ s.bundles[2].state = "prepared"
        /\ s.pendingAction = Null
        /\ s.lastVolumeRoute = "jupiter"

StageCounters(s) ==
    << s.autoSnipeStats.totalSignals, s.autoSnipeStats.txOk,
       s.autoSnipeStats.mintInferred, s.autoSnipeStats.safetyOk,
       s.autoSnipeStats.triggered >>

\* C11: in every reachable state and under any interleaving of signal
\* handlers, the auto-stats counters of a session never decrease and
\* satisfy triggered <= safetyOk <= mintInferred <= txOk <= totalSignals.
C11_CountersOrderedAndMonotone ==
    /\ [](\A c \in Clusters, o \in Owners :
            sessions[c][o].autoSnipeStats /= Null
              => \A i \in 1..4 : StageCounters(sessions[c][o])[i + 1]
                                   <= StageCounters(sessions[c][o])[i])
    /\ [][ \A c \in Clusters, o \in Owners :
             sessions[c][o].autoSnipeStats /= Null
               => /\ sessions'[c][o].autoSnipeStats /= Null
                  /\ \A i \in 1..5 : StageCounters(sessions'[c][o])[i]
                                       >= StageCounters(sessions[c][o])[i] ]_vars

\* two handlers overlapped: one lost its transaction fetch, the other went
\* through every stage and triggered
C11_Witness ==
    /\ sessions[Mainnet]["o1"].autoSnipeStats /= Null
    /\ StageCounters(sessions[Mainnet]["o1"]) = << 2, 1, 1, 1, 1 >>
    /\ handlers = {}

\* C12: checkMintSafety never rejects for holder concentration when fewer
\* than 5 of the returned largest accounts are non-zero, and its result is
\* then the same under every pair of caps; with 5 or more it rejects
\* exactly when top1Pct exceeds maxTop1HolderPct (checked first) or
\* top10Pct exceeds maxTop10HolderPct.
C12_ConcentrationGateFromFiveHolders ==
    LET r == safetyCall.result
        ans == safetyCall.ans
        a == safetyCall.cfg
        nz == nonZeroHolders(ans.amounts)
        over1 == top1Pct(ans) > a.maxTop1HolderPct * 100
        over10 == top10Pct(ans) > a.maxTop10HolderPct * 100
        reachesGate == /\ ~r.threw
                       /\ r.reason \notin (RejectReasons \ {"top1 too high", "top10 too high"})
    IN  safetyCall.made =>
          /\ nz < 5 =>
               /\ r.reason \notin {"top1 too high", "top10 too high"}
               /\ \A caps \in HolderCaps :
                     checkMintSafety([ a EXCEPT !.maxTop1HolderPct = caps[1],
                                                !.maxTop10HolderPct = caps[2] ], ans) = r
          /\ (nz >= 5 /\ reachesGate) =>
               /\ (r.reason = "top1 too high") <=> over1
               /\ (r.reason = "top10 too high") <=> (~over1 /\ over10)
               /\ r.ok <=> (~over1 /\ ~over10)

\* five accounts were returned, four of them non-zero, the largest holding
\* 60% against a cap of 20%: the mint passed and the session triggered
C12_Witness ==
    /\ safetyCall.made
    /\ Len(safetyCall.ans.amounts) = 5
    /\ nonZeroHolders(safetyCall.ans.amounts) = 4
    /\ safetyCall.result.ok
    /\ top1Pct(safetyCall.ans) = 6000
    /\ safetyCall.cfg.maxTop1HolderPct = 20
    /\ sessions[Mainnet]["o1"].autoSnipeStats.triggered = 1

\* the positions of the tip transactions in a sequence of unsigned txs
TipPositions(txs) == { i \in 1..Len(txs) : txs[i].kind = "tip" }

\* the step ends materialization m with its result written into the action
Materialized(m) ==
    /\ sessions[m.cluster][m.owner].pendingAction /= Null
    /\ sessions[m.cluster][m.owner].pendingAction.needsUnsignedTxs
    /\ sessions'[m.cluster][m.owner].pendingAction /= Null
    /\ ~sessions'[m.cluster][m.owner].pendingAction.needsUnsignedTxs

\* C13: a successful materialization includes a tip transaction only when
\* mevEnabled is true and the cluster is mainnet, at most one, and as the
\* last element; on devnet none is included and the tip-account provider
\* is not called; when the tip fetch or build fails the swap transactions
\* are still returned, without a tip.
C13_TipLastMainnetOnly ==
    /\ [][ \A m \in materializing \ materializing' :
             LET txs == sessions'[m.cluster][m.owner].pendingAction.unsignedTxsBase64
                 pa == sessions[m.cluster][m.owner].pendingAction
             IN  /\ Materialized(m) =>
                      /\ Cardinality(TipPositions(txs)) <= 1
                      /\ TipPositions(txs) /= {} =>
                           /\ m.cfg.mevEnabled /\ m.cluster = Mainnet
                           /\ TipPositions(txs) = { Len(txs) }
                      /\ Len(txs) > Cardinality(TipPositions(txs))
                 /\ (m.pc = "tip" /\ pa /= Null /\ pa.needsUnsignedTxs) =>
                      /\ Materialized(m)
                      /\ SubSeq(txs, 1, Len(m.unsigned)) = m.unsigned
                      /\ TipPositions(m.unsigned) = {} ]_vars
    /\ []("getTipAccounts" \notin engineCalls[Devnet])
    /\ [](\A m \in materializing : m.pc = "tip" => m.cluster = Mainnet /\ m.cfg.mevEnabled)

\* on mainnet with MEV protection the tip provider failed and the buy was
\* returned alone, with the warning in the session log
C13_Witness ==
    LET s == sessions[Mainnet]["o1"]
    IN  /\ s.config /= Null /\ s.config.mevEnabled /\ s.config.mode = "snipe"
        /\ s.pendingAction /= Null
        /\ ~s.pendingAction.needsUnsignedTxs
        /\ Len(s.pendingAction.unsignedTxsBase64) = 1
        /\ s.pendingAction.unsignedTxsBase64[1].kind = "buy"
        /\ "getTipAccounts" \in engineCalls[Mainnet]
        /\ \E i \in 1..Len(s.logs) :
              s.logs[i].msg = "Jito tip unavailable; proceeding without tip"

\* the session log holds a warning with one of the messages
Warned(s, msgs) ==
    \E i \in 1..Len(s.logs) : s.logs[i].level = "warn" /\ s.logs[i].msg \in msgs

\* the step in which the tip validation of request p ends appends a warning
\* with one of the messages when the last transaction is no tip transfer
TipStepWarns(p, msgs) ==
    LET logs == sessions[p.cluster][p.owner].logs
        logs1 == sessions'[p.cluster][p.owner].logs
    IN  (p.pc = "tip" /\ ~p.body.tipLast) =>
            /\ Len(logs1) = Len(logs) + 1
            /\ logs1[Len(logs1)].level = "warn"
            /\ logs1[Len(logs1)].msg \in msgs

\* the step ends request p with the response of a prepared bundle
PrepareSucceeded(p) ==
    /\ p.pc = "sim"
    /\ lastResp'.op = "prepare-bundle"
    /\ lastResp'.status = 200

\* the tip validation of p neither answers the request nor ends it
TipStepGoesOn(p) ==
    p.pc = "tip" =>
        /\ [ p EXCEPT !.pc = "sim" ] \in preparing'
        /\ "simulateBundle" \in engineCalls'[p.cluster]
        /\ lastResp' = lastResp

BuyOf(route) ==
    CASE route = "jupiter" -> "jupiter-buy"
      [] route = "pumpfun" -> "pumpportal-pump-buy"
      [] route = "raydium" -> "pumpportal-raydium-buy"

\* the step runs the volume route chain of request m
RouteChainEnds(m) ==
    /\ m.pc = "swap"
    /\ m.cfg.mode = "volume"
    /\ routeCall'.made
    /\ \A n \in materializing' : n.pc /= "swap"

\* C15: the volume routes are attempted in the order Jupiter, PumpPortal
\* pool pump, PumpPortal pool raydium, each later one exactly when every
\* earlier one raised; when all three raise, materialization fails with an
\* error naming the Jupiter cause and the last fallback cause and
\* lastVolumeRoute is not updated; otherwise lastVolumeRoute names the route
\* that produced the buy transaction.
C15_RoutesInOrder ==
    [][ \A m \in materializing :
          RouteChainEnds(m) =>
            LET r == routeCall'
                s == sessions[m.cluster][m.owner]
                s1 == sessions'[m.cluster][m.owner]
                n == Len(r.attempts)
            IN  /\ n \in 1..3
                /\ r.attempts = SubSeq(RouteOrder, 1, n)
                /\ r.raised \subseteq { r.attempts[i] : i \in 1..n }
                /\ \A i \in 2..3 :
                      i <= n <=> \A j \in 1..(i - 1) : RouteOrder[j] \in r.raised
                /\ IF \A j \in 1..3 : RouteOrder[j] \in r.raised
                   THEN /\ r.route = NULL
                        /\ r.error = NoSwapRoute("jupiter", "raydium")
                        /\ s1.lastVolumeRoute = s.lastVolumeRoute
                        /\ s1.pendingAction = Null
                        /\ s1.logs[Len(s1.logs)].msg = "Failed to build unsigned txs"
                        /\ m \notin materializing'
                   ELSE /\ r.route = r.attempts[n]
                        /\ r.route \notin r.raised
                        /\ s1.lastVolumeRoute = r.route
                        /\ r.error = NoRouteError
                        /\ r.unsigned[Len(r.unsigned)].kind \in
                              { BuyOf(r.route), "jupiter-sell" }
                        /\ \E i \in 1..Len(r.unsigned) : r.unsigned[i].kind = BuyOf(r.route) ]_vars

\* Jupiter and the pump pool raised, the raydium pool built the buy
C15_Witness ==
    /\ routeCall.made
    /\ routeCall.attempts = RouteOrder
    /\ routeCall.raised = {"jupiter", "pumpfun"}
    /\ sessions[Mainnet]["o1"].lastVolumeRoute = "raydium"
    /\ sessions[Mainnet]["o1"].pendingAction /= Null
    /\ ~sessions[Mainnet]["o1"].pendingAction.needsUnsignedTxs
    /\ sessions[Mainnet]["o1"].pendingAction.unsignedTxsBase64[1].kind = "pumpportal-raydium-buy"

\* the swap transactions of a sequence of unsigned txs
Swaps(txs) == SelectSeq(txs, LAMBDA t : t.kind /= "tip")

\* C16: when volume materialization ends on a fallback route, wherever the
\* Jupiter path raised, the returned sequence holds exactly one swap
\* transaction, the fallback buy, followed by at most the tip transaction;
\* with roundtrip a warning is logged and no sell leg is included.
C16_FallbackReturnsOneSwap ==
    [][ \A m \in materializing \ materializing' :
          LET s1 == sessions'[m.cluster][m.owner]
              txs == s1.pendingAction.unsignedTxsBase64
          IN  ( /\ m.cfg.mode = "volume"
                /\ Materialized(m)
                /\ s1.lastVolumeRoute \in {"pumpfun", "raydium"} ) =>
                  /\ Swaps(txs) = << UnsignedTx(BuyOf(s1.lastVolumeRoute), Null) >>
                  /\ Len(txs) <= 2
                  /\ TipPositions(txs) \subseteq { 2 }
                  /\ m.cfg.volumeRoundtrip =>
                        Warned(s1, { "Roundtrip is not supported for PumpPortal routes" }) ]_vars

\* the sockets of cluster c that are connecting or open
LiveSockets(c) ==
    { i \in SocketIds : sockets[i].cluster = c /\ sockets[i].st \in {"connecting", "open"} }

\* the connection state of cluster c: runtime.ws and the subscription maps
Connection(c) ==
    << ws[c], wsSubIdsByKey[c], wsSubKeyById[c], wsPendingReqIdToKey[c] >>

\* the step is startWalletSession(o, cfg) for some cfg of cluster c
Starts(c, o) ==
    /\ sessions'[c][o].epoch = sessions[c][o].epoch + 1
    /\ sessions'[c][o].running

\* the step is stopWalletSession(c, o)
Stops(c, o) ==
    /\ sessions'[c][o].epoch = sessions[c][o].epoch + 1
    /\ ~sessions'[c][o].running

\* the step is the close event of a socket of cluster c that Stop closed
LateClose(c, id) ==
    /\ sockets[id].cluster = c
    /\ sockets[id].st = "closing"
    /\ sockets'[id].st = "closed"

\* C17: at most one WebSocket of a cluster is connecting or open at any
\* time and runtime.ws refers to it; ensureClusterSubscription is a no-op
\* when a connection exists; the close event of a socket that Stop closed
\* does not clear runtime.ws or the subscription maps of a connection
\* opened by a later Start.
C17_OneSocketPerCluster ==
    /\ [](\A c \in Clusters :
            /\ Cardinality(LiveSockets(c)) <= 1
            /\ LiveSockets(c) /= {} => ws[c] \in LiveSockets(c))
    /\ [][ \A c \in Clusters :
             /\ \A o \in Owners :
                  (Starts(c, o) /\ ws[c] /= 0) =>
                      /\ Connection(c)' = Connection(c)
                      /\ sockets' = sockets
             /\ \A id \in SocketIds :
                  (LateClose(c, id) /\ ws[c] /= 0 /\ ws[c] /= id) =>
                      Connection(c)' = Connection(c) ]_vars

\* the subscription maps of cluster c are empty
MapsEmpty(c) ==
    /\ wsSubIdsByKey[c] = NoSubIds
    /\ wsSubKeyById[c] = NoSubKeys
    /\ wsPendingReqIdToKey[c] = NoSubKeys

\* C18: when Stop returns and no session of the cluster is running,
\* runtime.ws is undefined and the three subscription maps are empty; when
\* another session of the cluster is still running, Stop leaves the
\* WebSocket and the maps untouched; a volume-only Start never opens the
\* WebSocket.
C18_StopClosesWhenLast ==
    [][ \A c \in Clusters, o \in Owners :
          /\ Stops(c, o) =>
                IF anySessionsRunning(sessions'[c])
                THEN /\ Connection(c)' = Connection(c)
                     /\ sockets' = sockets
                ELSE /\ ws'[c] = 0
                     /\ MapsEmpty(c)'
          /\ (Starts(c, o) /\ sessions'[c][o].config.mode = "volume") =>
                /\ ws' = ws
                /\ sockets' = sockets ]_vars

\* the step appends a line with this message to the log of session (c, o)
Logged(c, o, msg) ==
    LET logs == sessions[c][o].logs
        logs1 == sessions'[c][o].logs
    IN  \E i \in (Len(logs) + 1)..Len(logs1) : logs1[i].msg = msg

\* C19: after every Stop and after every Start on a session pendingAction
\* is null and the per-mint momentum map holds no entry (count, payers,
\* cached safety result) from before, so that signals counted before a
\* restart never contribute to a trigger after it.
C19_RestartResetsTransient ==
    [][ \A c \in Clusters, o \in Owners :
          (Logged(c, o, "Session started") \/ Logged(c, o, "Session stopped")) =>
              /\ sessions'[c][o].pendingAction = Null
              /\ \A m \in Mints : sessions'[c][o].autoMintStats[m] = Null ]_vars

\* C20: session.epoch never decreases; every Start and every Stop on a
\* session increases it by exactly one, also Start on a running session and
\* Stop on a stopped one; no other operation changes it.
C20_EpochCountsStartsAndStops ==
    [][ \A c \in Clusters, o \in Owners :
          LET e == sessions[c][o].epoch
              e1 == sessions'[c][o].epoch
              startOrStop == \/ Logged(c, o, "Session started")
                             \/ Logged(c, o, "Session stopped")
          IN  /\ e1 >= e
              /\ startOrStop => e1 = e + 1
              /\ e1 /= e => startOrStop ]_vars

\* Start on a running session and nothing else: two starts, epoch 2
C20_Witness ==
    LET s == sessions[Mainnet]["o1"]
    IN  /\ s.running /\ s.epoch = 2
        /\ Cardinality({ i \in 1..Len(s.logs) : s.logs[i].msg = "Session started" }) = 2
        /\ \A i \in 1..Len(s.logs) : s.logs[i].msg /= "Session stopped"

\* C21: whatever the sequence of Start and Stop calls, at most one volume
\* interval timer exists per (cluster, owner), the one the timer map
\* holds, and after Stop returns none exists for that session.
C21_OneVolumeTimer ==
    /\ [](\A c \in Clusters, o \in Owners :
            /\ intervals[volumeKey(c, o)] \in {0, 1}
            /\ intervals[volumeKey(c, o)] = 1 <=> volumeTimers[volumeKey(c, o)] /= 0)
    /\ [][ \A c \in Clusters, o \in Owners :
             Logged(c, o, "Session stopped") => intervals'[volumeKey(c, o)] = 0 ]_vars

\* a volume session was started again as a sniper without a Stop: its
\* one timer is still there
C21_Witness ==
    LET s == sessions[Mainnet]["o1"]
    IN  /\ s.running /\ s.epoch = 2
        /\ s.config.mode = "snipe"
        /\ intervals[volumeKey(Mainnet, "o1")] = 1

\* the interval of the volume loop under configuration cfg, in ms
VolumeIntervalMs(cfg) == Max(MinIntervalSec, cfg.volumeIntervalSec) * 1000

\* the step arms session (c, o) from the volume timer
ArmsFromTimer(c, o) ==
    /\ sessions'[c][o].pendingAction /= Null
    /\ sessions'[c][o].pendingAction /= sessions[c][o].pendingAction
    /\ sessions'[c][o].pendingAction.source = "volumeTimer"
    /\ sessions'[c][o].pendingAction.needsUnsignedTxs

\* C22: two consecutive pending actions the volume timer arms on a running
\* session are at least max(2, volumeIntervalSec) seconds apart, the
\* action armed at Start and the one after it included, however quickly
\* the earlier one is cleared.
C22_VolumeActionsSpaced ==
    [][ \A c \in Clusters, o \in Owners :
          (ArmsFromTimer(c, o) /\ tickArmed[volumeKey(c, o)] /= 0) =>
              sessions'[c][o].pendingAction.triggerSignature[2] - tickArmed[volumeKey(c, o)]
                  >= VolumeIntervalMs(sessions'[c][o].config) ]_vars

\* C23: a bundle record's state changes only from prepared to submitted or
\* from prepared to error; a record in state error (or confirmed or
\* dropped) keeps its state whatever follows, another Submit of the same
\* local id included; a state change alters neither running nor config nor
\* pendingAction of the session.
C23_BundleStateOneWay ==
    [][ \A c \in Clusters, o \in Owners, id \in BundleIds :
          LET b == sessions[c][o].bundles[id]
              b1 == sessions'[c][o].bundles[id]
          IN  (b /= Null /\ b1 /= Null /\ b1.state /= b.state) =>
                  /\ b.state = "prepared"
                  /\ b1.state \in {"submitted", "error"}
                  /\ sessions'[c][o].running = sessions[c][o].running
                  /\ sessions'[c][o].config = sessions[c][o].config
                  /\ sessions'[c][o].pendingAction = sessions[c][o].pendingAction ]_vars

\* the step answers a request of route op
Answers(op) == lastResp' /= lastResp /\ lastResp'.op = op

\* the step answers a Submit without calling sendBundle
SubmitRefused == Answers("submit-bundle") /\ submitting' = submitting

C25_FailedMaterializationBacksOff ==
    [][ \A c \in Clusters, o \in Owners :
          LET s == sessions[c][o]
              s1 == sessions'[c][o]
          IN  /\ Logged(c, o, "Failed to build unsigned txs") =>
                    /\ s1.pendingAction = Null
                    /\ s1.logs[Len(s1.logs)].level = "error"
                    /\ s1.running = s.running
                    /\ s1.config = s.config
                    /\ (s.config /= Null /\ s.config.mode = "volume") =>
                          s1.lastVolumeActionMs = clock
              /\ (ArmsFromTimer(c, o) /\ ~Logged(c, o, "Session started")
                    /\ s.lastVolumeActionMs /= 0) =>
                    clock - s.lastVolumeActionMs >= VolumeIntervalMs(s1.config) ]_vars

\* every route raised at the first second; the session is running without
\* an action and the loop holds back until the third
C25_Witness ==
    LET s == sessions[Mainnet]["o1"]
    IN  /\ s.running /\ s.pendingAction = Null
        /\ routeCall.made /\ routeCall.route = NULL
        /\ s.lastVolumeActionMs = ClockStart
        /\ clock = ClockStart + TickMs
        /\ s.logs[Len(s.logs)].msg = "Failed to build unsigned txs"

\* C26: a pending action has needsUnsignedTxs exactly when its list of
\* unsigned transactions is empty; a successful materialization fills the
\* list and clears the flag, and a status request starts a materialization
\* only for an action that has the flag.
C26_FlagIffNoTransactions ==
    /\ [](\A c \in Clusters, o \in Owners :
            LET pa == sessions[c][o].pendingAction
            IN  pa /= Null => (pa.needsUnsignedTxs <=> Len(pa.unsignedTxsBase64) = 0))
    /\ [][ /\ \A m \in materializing \ materializing' :
                LET pa == sessions[m.cluster][m.owner].pendingAction
                    pa1 == sessions'[m.cluster][m.owner].pendingAction
                IN  (pa /= Null /\ pa1 /= Null /\ pa1.unsignedTxsBase64 /= pa.unsignedTxsBase64) =>
                        /\ Len(pa1.unsignedTxsBase64) > 0
                        /\ ~pa1.needsUnsignedTxs
           /\ \A m \in materializing' \ materializing :
                m.pc = "swap" =>
                    /\ sessions[m.cluster][m.owner].pendingAction /= Null
                    /\ sessions[m.cluster][m.owner].pendingAction.needsUnsignedTxs
                    /\ m.pa = sessions[m.cluster][m.owner].pendingAction ]_vars

\* a snipe action materialized with its tip: the status request is answered
\* and no materialization is in flight
C26_Witness ==
    LET pa == sessions[Mainnet]["o1"].pendingAction
    IN  /\ pa /= Null
        /\ ~pa.needsUnsignedTxs
        /\ Len(pa.unsignedTxsBase64) = 2
        /\ pa.source = "pumpfun"
        /\ materializing = {}
        /\ lastResp.op = "status" /\ lastResp.flip

\* C27: a block-engine RPC call makes at most 3 HTTP attempts and sends
\* its request again only after an HTTP 429 with attempts remaining; any
\* other failure (another non-2xx status, an empty body, a JSON-RPC error,
\* a network error) is raised to the caller after that one attempt.
C27_RetryOnlyOn429 ==
    /\ [](jitoRpc.sent <= maxAttempts)
    /\ [][ Len(jitoRpc'.got) = Len(jitoRpc.got) + 1 =>
             LET resp == jitoRpc'.got[Len(jitoRpc'.got)]
             IN  /\ resp \notin { "ok", "429" } =>
                       jitoRpc'.pc = "threw" /\ jitoRpc'.sent = jitoRpc.sent
                 /\ jitoRpc'.sent > jitoRpc.sent => resp = "429" ]_vars

\* the getTipAccounts calls of cluster c that went to the network having read
\* the cache entry fetched at t0
Refreshes(c, t0) ==
    { call \in tipCalls : call.cluster = c /\ call.io /\ call.cached.fetchedAtMs = t0 }

\* C28: after a successful fetch at t0 every getTipAccounts call before
\* t0 + 30 minutes returns the cached list without network I/O; once the 30
\* minutes have passed exactly one refresh is attempted, also with concurrent
\* callers and when the refresh fails; a failed refresh returns the previous
\* non-empty list instead of an error.
C28_OneRefreshPerExpiry ==
    /\ \A call \in tipCalls :
          /\ (call.cached.fetchedAtMs /= 0
                 /\ call.now < call.cached.fetchedAtMs + TipCacheTtlMs) =>
                (~call.io /\ call.pc = "returned" /\ call.result = call.cached.accounts)
          /\ (call.pc = "threw") => Len(call.cached.accounts) = 0
    /\ \A c \in Clusters, call \in tipCalls :
          call.cached.fetchedAtMs /= 0 =>
              Cardinality(Refreshes(c, call.cached.fetchedAtMs)) <= 1

\* the callers of withRpcLimit whose fn is executing on cluster c
Executing(c) == { i \in Callers : rpcCallers[i].pc = "running" /\ rpcCallers[i].cluster = c }

\* C29: in every interleaving of concurrent callers of withRpcLimit on one
\* cluster, callers that arrive between the wake-up of a waiter and its
\* resumption included, at most 2 RPC bodies execute at the same time and
\* the in-flight counter is never negative.
C29_AtMostTwoBodies ==
    \A c \in Clusters :
        /\ Cardinality(Executing(c)) <= RpcLimit
        /\ rpcInFlight[c] >= 0

\* the message handler of cluster c has just ended with this fate
Handled(c, fate) ==
    /\ stream'[c].last.flip /= stream[c].last.flip
    /\ stream'[c].last.fate = fate

\* C30: a message that is not valid JSON, a notification without a signature
\* or with empty logs, and a notification of an unknown subscription id are
\* dropped silently: the sessions, the logs and the suspended handlers are
\* as before, and no exception leaves the message handler.
C30_BadMessagesDropped ==
    [][ \A c \in Clusters :
           /\ ~Handled(c, "threw")
           /\ (Handled(c, "ignored") \/ Handled(c, "unknown")) =>
                  /\ sessions' = sessions
                  /\ clusterLogs' = clusterLogs
                  /\ handlers' = handlers ]_vars

\* the entries of the mainnet de-duplication set, oldest first
Seen == seenSignatures[Mainnet]

\* C31: after every markSeenSignature call the seen-set holds at most 3000
\* signatures; an insertion that makes it exceed 3000 replaces it by exactly
\* the 2000 most recently inserted signatures in insertion order, so that
\* the 3001st distinct signature leaves the last 2000 inserts present and
\* the first 1001 absent; below the cap an insertion only appends.
C31_TrimKeepsNewest ==
    /\ [](Len(Seen) <= SeenCap)
    /\ [][ Seen' /= Seen =>
             IF Len(Seen) = SeenCap
             THEN /\ Len(Seen') = SeenKeep
                  /\ Seen'[SeenKeep] \notin Range(Seen)
                  /\ \A i \in 1..(SeenKeep - 1) :
                        Seen'[i] = Seen[i + SeenCap - SeenKeep + 1]
                  /\ \A i \in 1..(SeenCap - SeenKeep + 1) : Seen[i] \notin Range(Seen')
             ELSE /\ Len(Seen') = Len(Seen) + 1
                  /\ SubSeq(Seen', 1, Len(Seen)) = Seen
                  /\ Seen'[Len(Seen')] \notin Range(Seen) ]_vars

\* the 3001st distinct signature has just been inserted: the set holds the
\* 2000 signatures 1002..3001
C31_Witness ==
    /\ Len(Seen) = SeenKeep
    /\ Seen[1] = SeenCap - SeenKeep + 2
    /\ Seen[SeenKeep] = SeenCap + 1

\* the fields of a session the routes may only touch for their own owner
Owned(s) == << s.running, s.config, s.epoch, s.pendingAction, s.bundles, s.preparedBundles >>

\* the requests suspended at an await, before or after the step
Suspended == materializing \cup preparing \cup submitting
SuspendedNext == materializing' \cup preparing' \cup submitting'

\* the step is a route call, or the continuation of one, for session (c, o)
AddressedTo(c, o) ==
    \/ lastResp' /= lastResp /\ lastResp'.cluster = c /\ lastResp'.owner = o
    \/ \E r \in (Suspended \ SuspendedNext) \cup (SuspendedNext \ Suspended) :
          r.cluster = c /\ r.owner = o
    \/ sessions'[c][o].epoch /= sessions[c][o].epoch

\* C32: Start, Stop, materialization, ack-action, Prepare and Submit for
\* (cluster, owner) leave running, config, epoch, pendingAction, bundles and
\* preparedBundles of every other session unchanged, in the same cluster and
\* in the other one (the same owner on mainnet and devnet has two sessions);
\* a session once created stays the session of its (cluster, owner): it is
\* listed once and its epoch never goes back.
C32_SessionsIsolated ==
    [][ /\ \A c \in Clusters, o \in Owners :
              /\ Owned(sessions'[c][o]) /= Owned(sessions[c][o]) => AddressedTo(c, o)
              /\ sessions'[c][o].epoch >= sessions[c][o].epoch
              /\ HasSession(c, o) => Contains(sessOrder'[c], o)
              /\ Cardinality({ i \in 1..Len(sessOrder'[c]) : sessOrder'[c][i] = o }) <= 1
        /\ \A c1, c2 \in Clusters, o1, o2 \in Owners :
              (AddressedTo(c1, o1) /\ AddressedTo(c2, o2)) => (c1 = c2 /\ o1 = o2) ]_vars

\* wallet o1 was stopped on mainnet, where it has a bundle, while its devnet
\* session and the mainnet session of wallet o2 run in their first epoch
\* with their pending action and without a bundle
C32_Witness ==
    /\ ~sessions[Mainnet]["o1"].running
    /\ sessions[Mainnet]["o1"].epoch = 2
    /\ sessions[Mainnet]["o1"].pendingAction = Null
    /\ sessions[Mainnet]["o1"].bundles[1] /= Null
    /\ \A k \in { << Mainnet, "o2" >>, << Devnet, "o1" >> } :
          /\ sessions[k[1]][k[2]].running
          /\ sessions[k[1]][k[2]].epoch = 1
          /\ sessions[k[1]][k[2]].pendingAction /= Null
          /\ sessions[k[1]][k[2]].bundles[1] = Null

\* a sequence of complete [u16 type][u16 length][length bytes] entries
RECURSIVE WellFormedTlv(_)
WellFormedTlv(ext) ==
    \/ ext = << >>
    \/ /\ Len(ext) >= 4
       /\ Len(ext) >= 4 + u16le(ext, 3)
       /\ WellFormedTlv(SubSeq(ext, 5 + u16le(ext, 3), Len(ext)))

\* the types of the entries of a well-formed sequence
RECURSIVE TlvTypes(_)
TlvTypes(ext) ==
    IF ext = << >> THEN << >>
    ELSE << u16le(ext, 1) >> \o TlvTypes(SubSeq(ext, 5 + u16le(ext, 3), Len(ext)))

\* C33: parseToken2022ExtensionTypes returns the exact sequence of types of
\* a well-formed TLV suffix after byte 82 and the empty list for every
\* truncated suffix, also when the truncation follows complete entries;
\* data of 82 bytes or fewer gives the empty list.
C33_TlvExactOrEmpty ==
    LET data == tlv.data
    IN  tlv.types = IF DataLength(data) <= MintLayoutBytes THEN << >>
                    ELSE IF WellFormedTlv(data.ext) THEN TlvTypes(data.ext)
                    ELSE << >>

\* the handlers suspended in checkMintSafety (line 507) for mint m on behalf
\* of session (c, o)
SafetyChecks(c, o, m) ==
    { h \in handlers : /\ h.pc = "safety" /\ h.cluster = c /\ h.mint = m
                       /\ sessOrder[c][h.idx] = o /\ h.epoch = sessions[c][o].epoch }

\* C34: within one momentum window of one session the safety check of a
\* mint is executed at most once, also while several signals for the mint
\* are processed concurrently: no two checks of one mint run for the same
\* run of a session, and none runs once a verdict is memoized.
C34_OneSafetyCheckPerMint ==
    \A c \in Clusters, o \in Owners, m \in Mints :
        /\ Cardinality(SafetyChecks(c, o, m)) <= 1
        /\ (sessions[c][o].autoMintStats[m] /= Null
               /\ sessions[c][o].autoMintStats[m].safety /= Null) =>
              SafetyChecks(c, o, m) = {}

\* the mint the transaction of signature sig gives a session configured
\* with cfg: the first static account key in the snipe list, the inferred
\* mint in auto mode before migration, none otherwise
TargetOf(cfg, sig) ==
    LET tx == Ledger(sig)
        listed == MentionedMints(tx, snipeSet(cfg))
    IN  IF cfg.mode = "snipe" /\ cfg.snipeTargetMode = "list"
        THEN (IF Len(listed) > 0 THEN listed[1] ELSE NULL)
        ELSE IF cfg.mode = "snipe" /\ cfg.pumpFunPhase = "pre" /\ cfg.snipeTargetMode = "auto"
        THEN InferredMint(tx)
        ELSE NULL

\* C35: the targetMint of a signal-armed pendingAction is a mint obtained
\* from the triggering transaction of that signal under the current config;
\* when the signal produced no match (snipe/post with targetMode auto) no
\* targetMint of an earlier signal or an earlier run is attached.
C35_TargetFromOwnSignal ==
    [][ \A c \in Clusters, o \in Owners :
           (Arms(c, o) /\ sessions'[c][o].pendingAction.source /= "volumeTimer") =>
               sessions'[c][o].pendingAction.targetMint =
                   TargetOf(sessions'[c][o].config,
                            sessions'[c][o].pendingAction.triggerSignature[2]) ]_vars

\* the session of wallet o1 on mainnet snipes after migration in auto mode
PostAuto(s) ==
    /\ s.running /\ s.config /= Null
    /\ s.config.mode = "snipe" /\ s.config.pumpFunPhase = "post"
    /\ s.config.snipeTargetMode = "auto"

C37_DroppedSignatureStaysSeen ==
    [][ \A c \in Clusters :
           LET sig == stream'[c].last.sig
               fate == stream'[c].last.fate
           IN  (stream'[c].last.flip /= stream[c].last.flip /\ fate /= "ignored") =>
                  /\ Contains(seenSignatures'[c], sig)
                  /\ Contains(seenSignatures[c], sig) =>
                        /\ fate = "duplicate"
                        /\ sessions' = sessions
                        /\ handlers' = handlers
                        /\ clusterLogs' = clusterLogs ]_vars

\* the buy of M1 was notified again and dropped as a duplicate while a
\* session waits for pumpfun signals and no notification has ever reached
\* the sessions
C37_Witness ==
    /\ stream[Mainnet].last.sig = 4
    /\ stream[Mainnet].last.fate = "duplicate"
    /\ stream[Mainnet].fanned = 0
    /\ ws[Mainnet] /= 0
    /\ wsSubKeyById[Mainnet][SubIdOf(ws[Mainnet], "pumpfun")] = "pumpfun"
    /\ \E o \in Owners : /\ sessions[Mainnet][o].running
                         /\ sessions[Mainnet][o].pendingAction = Null

\* the step calls jito.sendBundle for bundle id of session (c, o)
SendsBundle(c, o, id) ==
    \E r \in submitting' \ submitting :
        r.cluster = c /\ r.owner = o /\ r.bundleId = id /\ r.pc = "send"

\* C38: a prepared bundle is sent to the block engine at most once: a Submit
\* calls sendBundle for a local id only while its record is in state
\* prepared, that is, while no earlier Submit has sent it.
C38_SentAtMostOnce ==
    [][ \A c \in Clusters, o \in Owners, id \in BundleIds :
           SendsBundle(c, o, id) => sessions[c][o].bundles[id].state = "prepared" ]_vars

\* the bundle books of every session agree: the same ids in bundles and in
\* preparedBundles, each record under its own id, in one of the three states
\* the routes write
BundleBooksAgree ==
    \A c \in Clusters, o \in Owners, id \in BundleIds :
        LET s == sessions[c][o]
        IN  /\ (s.bundles[id] = Null) <=> (s.preparedBundles[id] = Null)
            /\ s.bundles[id] /= Null =>
                   /\ s.bundles[id].bundleId = id
                   /\ s.preparedBundles[id].bundleId = id
                   /\ s.bundles[id].state \in {"prepared", "submitted", "error"}

\* the step removes no record of either map
KeepsBundleRecords ==
    \A c \in Clusters, o \in Owners, id \in BundleIds :
        /\ sessions[c][o].bundles[id] /= Null => sessions'[c][o].bundles[id] /= Null
        /\ sessions[c][o].preparedBundles[id] /= Null =>
               /\ sessions'[c][o].preparedBundles[id] = sessions[c][o].preparedBundles[id]

\* the step answers a Prepare on mainnet with its error response
PrepareRaises ==
    Answers("prepare-bundle") /\ lastResp'.status = 500

\* C39: in every reachable state of every session bundles and preparedBundles
\* have the same keys, each record's bundleId is its key and every bundle
\* state is prepared, submitted or error; no step removes a record; a
\* Prepare that raises (undecodable transaction or failing simulateBundle)
\* adds no record and leaves pendingAction unchanged.
C39_BundleBooksAgree ==
    /\ []BundleBooksAgree
    /\ [][ KeepsBundleRecords ]_vars
    /\ [][ PrepareRaises =>
              \A c \in Clusters, o \in Owners :
                  /\ sessions'[c][o].bundles = sessions[c][o].bundles
                  /\ sessions'[c][o].preparedBundles = sessions[c][o].preparedBundles
                  /\ sessions'[c][o].pendingAction = sessions[c][o].pendingAction ]_vars

\* a Prepare was just answered with its error while the wallet holds a
\* pending action, one bundle in state submitted and one in state error
C39_Witness ==
    /\ lastResp.op = "prepare-bundle" /\ lastResp.status = 500
    /\ sessions[Mainnet]["o1"].pendingAction /= Null
    /\ sessions[Mainnet]["o1"].bundles[1] /= Null
    /\ sessions[Mainnet]["o1"].bundles[2] /= Null
    /\ sessions[Mainnet]["o1"].bundles[1].state = "submitted"
    /\ sessions[Mainnet]["o1"].bundles[2].state = "error"

\* the callers of withRpcLimit suspended in the queue of cluster c
Waiting(c) == { i \in Callers : rpcCallers[i].pc = "waiting" /\ rpcCallers[i].cluster = c }

\* the waiters of cluster c whose resolver the step calls
Woken(c) == { i \in Waiting(c) : rpcCallers'[i].pc = "woken" }

\* the queue of every cluster holds its waiting callers, each once, and
\* while it is not empty some caller of the cluster is executing its body or
\* about to resume
NoStrandedWaiter ==
    \A c \in Clusters :
        /\ SeqToSet(rpcQueues[c]) = Waiting(c)
        /\ Len(rpcQueues[c]) = Cardinality(Waiting(c))
        /\ rpcQueues[c] /= << >> =>
               \E i \in Callers : /\ rpcCallers[i].cluster = c
                                  /\ rpcCallers[i].pc \in {"running", "woken"}

\* a body that settles on cluster c wakes the first waiter of c and no
\* other; no other step wakes a waiter or takes one off a queue
WakesFirstWaiter ==
    \A c \in Clusters :
        LET q == rpcQueues[c]
            settled == { i \in Executing(c) : rpcCallers'[i].pc = "out" }
        IN  IF settled /= {} /\ q /= << >>
            THEN /\ Woken(c) = { Head(q) }
                 /\ rpcQueues'[c] = Tail(q)
            ELSE /\ Woken(c) = {}
                 /\ \/ rpcQueues'[c] = q
                    \/ \E i \in Callers : /\ rpcCallers[i].pc = "out"
                                          /\ rpcQueues'[c] = Append(q, i)

\* C40: provided every RPC body passed to withRpcLimit eventually returns or
\* throws, every caller suspended in the queue eventually acquires a slot and
\* runs its body: each body that settles wakes exactly the first waiter of
\* its cluster, and no waiter is left in a queue that nobody will shift.
C40_WaitersEventuallyRun ==
    /\ \A i \in Callers : (rpcCallers[i].pc = "waiting") ~> (rpcCallers[i].pc = "running")
    /\ [][ WakesFirstWaiter ]_vars
    /\ []NoStrandedWaiter

\* on mainnet the first waiter has been woken and has not resumed yet while
\* a second one is still in the queue behind it
C40_Witness ==
    /\ \E i \in Callers : rpcCallers[i].pc = "woken" /\ rpcCallers[i].cluster = Mainnet
    /\ Len(rpcQueues[Mainnet]) = 1
    /\ \E i \in Callers : rpcCallers[i].pc = "running" /\ rpcCallers[i].cluster = Mainnet

====
